---- MODULE Spec2Model ----
(***************************************************************************)
(* Molecule quality-control pipeline of                                    *)
(* bondnet/dataset/electrolyte/db_molecule_quality_analysis.py:            *)
(* the single-molecule checkers, the batch filter stages and check_all.    *)
(*                                                                         *)
(* Atom indices are 1-based here (0-based in the source).  m.bonds is a    *)
(* dict keyed by (a1, a2); its iteration order is its insertion order, so  *)
(* it is a sequence of pairs without repetition.                           *)
(***************************************************************************)
EXTENDS Integers, Sequences, FiniteSets, TLC

VARIABLES
    mol,      \* the molecule handed to a single-molecule checker
    ret,      \* the last call, its arguments and its result; the error of a raise
    pc,       \* position of the running function
    loaded,   \* the list pickle_load(filename) returns
    mols,     \* check_all's local `mols`; the list a batch stage is given
    log,      \* completed stage invocations, in call order
    dumped,   \* pickle_dump calls, in call order
    defaults  \* the default-argument objects, made once when the functions are defined

vars == <<mol, ret, pc, loaded, mols, log, dumped, defaults>>

----------------------------------------------------------------------------
(* Bounds *)

MaxAtoms == 3
MaxMols == 3

----------------------------------------------------------------------------
(* Species.  Python compares strings by code point; SpeciesRank is that   *)
(* order on the species names used here.                                   *)

SpeciesOrder == <<"C", "Cl", "F", "H", "Li", "Mg", "N", "O", "P", "S">>

SpeciesRank(s) == CHOOSE i \in 1..Len(SpeciesOrder) : SpeciesOrder[i] = s

\* sorted([s1, s2])
SortedPair(s1, s2) == IF SpeciesRank(s2) < SpeciesRank(s1) THEN <<s2, s1>> ELSE <<s1, s2>>

\* x in list
InList(x, list) == \E i \in 1..Len(list) : list[i] = x

----------------------------------------------------------------------------
(* check_connectivity_mol *)

allowed_charge ==
    [s \in {"H", "C", "O", "F", "P", "N", "S", "Li", "Mg"} |->
        CASE s = "H"  -> <<1>>
          [] s = "C"  -> <<1, 2, 3, 4>>
          [] s = "O"  -> <<1, 2>>
          [] s = "F"  -> <<1>>
          [] s = "P"  -> <<1, 2, 3, 5, 6>>
          [] s = "N"  -> <<1, 2, 3, 4, 5>>
          [] s = "S"  -> <<1, 2, 3, 4, 5, 6>>
          [] s = "Li" -> <<1, 2, 3>>
          [] s = "Mg" -> <<1, 2, 3>>]

default_metal == "Li"

\* the species bonded to atom a, in bond order: res[a][1] of get_neighbor_species
RECURSIVE NeighborsOf(_, _, _)
NeighborsOf(m, a, k) ==
    IF k > Len(m.bonds) THEN <<>>
    ELSE LET a1 == m.bonds[k][1]
             a2 == m.bonds[k][2]
             here == (IF a1 = a THEN <<m.species[a2]>> ELSE <<>>)
                     \o (IF a2 = a THEN <<m.species[a1]>> ELSE <<>>)
         IN  here \o NeighborsOf(m, a, k + 1)

get_neighbor_species(m) ==
    [a \in 1..Len(m.species) |-> <<m.species[a], NeighborsOf(m, a, 1)>>]

\* faulty variant: the metal is not removed
removed_metal_kept(n_s, metal) == n_s

\* faulty variant: every metal species is removed, not only the designated one
removed_metal_AnyMetal(n_s, metal) == SelectSeq(n_s, LAMBDA s : s \notin {"Li", "Mg"})

\* [s for s in n_s if s != metal]
removed_metal(n_s, metal) == SelectSeq(n_s, LAMBDA s : s # metal)

\* faulty variant: a zero count is looked up like any other
RECURSIVE ConnLoop_NoZeroSkip(_, _, _, _, _, _)
ConnLoop_NoZeroSkip(neigh, allowed, metal, a, do_fail, reason) ==
    IF a > Len(neigh)
    THEN [raised |-> FALSE, do_fail |-> do_fail, reason |-> reason]
    ELSE LET a_s == neigh[a][1]
             num_bonds == Len(SelectSeq(neigh[a][2], LAMBDA s : s # metal))
         IN  IF a_s \notin DOMAIN allowed
             THEN [raised |-> TRUE, do_fail |-> FALSE, reason |-> <<a_s>>]
             ELSE IF \A i \in 1..Len(allowed[a_s]) : allowed[a_s][i] # num_bonds
             THEN ConnLoop_NoZeroSkip(neigh, allowed, metal, a + 1, TRUE,
                                      Append(reason, a_s \o " " \o ToString(num_bonds)))
             ELSE ConnLoop_NoZeroSkip(neigh, allowed, metal, a + 1, do_fail, reason)

\* the loop over neigh_species, from atom a on
RECURSIVE ConnLoop(_, _, _, _, _, _)
ConnLoop(neigh, allowed, metal, a, do_fail, reason) ==
    IF a > Len(neigh)
    THEN [raised |-> FALSE, do_fail |-> do_fail, reason |-> reason]
    ELSE LET a_s == neigh[a][1]
             num_bonds == Len(removed_metal(neigh[a][2], metal))
         IN  IF num_bonds = 0
             THEN ConnLoop(neigh, allowed, metal, a + 1, do_fail, reason)
             ELSE IF a_s \notin DOMAIN allowed
             THEN [raised |-> TRUE, do_fail |-> FALSE, reason |-> <<a_s>>]
             ELSE IF ~InList(num_bonds, allowed[a_s])
             THEN ConnLoop(neigh, allowed, metal, a + 1, TRUE,
                           Append(reason, a_s \o " " \o ToString(num_bonds)))
             ELSE ConnLoop(neigh, allowed, metal, a + 1, do_fail, reason)

check_connectivity_mol(m, allowed, metal) ==
    ConnLoop(get_neighbor_species(m), allowed, metal, 1, FALSE, <<>>)

\* the informational note of line 55-56 is printed
single_atom_note(m) ==
    \E a \in 1..Len(m.species) :
        Len(NeighborsOf(m, a, 1)) = 0 /\ Len(m.species) = 1

----------------------------------------------------------------------------
(* check_bond_species_mol *)

not_allowed_mol_default == <<<<"Li", "H">>, <<"Li", "Li">>>>

\* faulty variant: the pair is taken in the order the bond stores its atoms
get_bond_species_as_stored(m) ==
    [k \in 1..Len(m.bonds) |-> <<m.species[m.bonds[k][1]], m.species[m.bonds[k][2]]>>]

\* the species pair of every bond, sorted
get_bond_species(m) ==
    [k \in 1..Len(m.bonds) |->
        SortedPair(m.species[m.bonds[k][1]], m.species[m.bonds[k][2]])]

\* faulty variant: the forbidden pairs are compared as written
sorted_not_allowed_as_written(not_allowed) == not_allowed

\* [sorted(i) for i in not_allowed]
sorted_not_allowed(not_allowed) ==
    [i \in 1..Len(not_allowed) |-> SortedPair(not_allowed[i][1], not_allowed[i][2])]

\* str(b) of a two-element list of strings
str_pair(b) == "['" \o b[1] \o "', '" \o b[2] \o "']"

RECURSIVE BondSpeciesLoop(_, _, _, _, _)
BondSpeciesLoop(bond_species, na, k, do_fail, reason) ==
    IF k > Len(bond_species)
    THEN [raised |-> FALSE, do_fail |-> do_fail, reason |-> reason]
    ELSE IF InList(bond_species[k], na)
    THEN BondSpeciesLoop(bond_species, na, k + 1, TRUE,
                         Append(reason, str_pair(bond_species[k])))
    ELSE BondSpeciesLoop(bond_species, na, k + 1, do_fail, reason)

check_bond_species_mol(m, not_allowed) ==
    BondSpeciesLoop(get_bond_species(m), sorted_not_allowed(not_allowed), 1, FALSE, <<>>)

----------------------------------------------------------------------------
(* IEEE-754 binary64 arithmetic, as Python's float and numpy's float64     *)
(* compute it (round to nearest, ties to even).  A natural number is the   *)
(* sequence of its digits in base LimbBase, least significant first,       *)
(* without leading zeros.  A double is [neg, man, exp] with value          *)
(* man * 2^exp, man of exactly MantBits bits (or <<>> for zero).  All      *)
(* values here are in the normal range, so overflow and subnormals are     *)
(* not modelled.                                                           *)

MantBits == 53
LimbBits == 14
LimbBase == 2 ^ LimbBits

\* F(v), with v evaluated once: an operator argument or a LET definition is
\* evaluated again at every use, a bound variable is not
With(v, F(_)) == CHOOSE r \in {F(x) : x \in {v}} : TRUE

RECURSIVE LTrim(_)
LTrim(a) == IF a = <<>> \/ a[Len(a)] # 0 THEN a ELSE LTrim(SubSeq(a, 1, Len(a) - 1))

RECURSIVE LFromNat(_)
LFromNat(n) == IF n = 0 THEN <<>> ELSE <<n % LimbBase>> \o LFromNat(n \div LimbBase)

LimbAt(a, i) == IF 1 <= i /\ i <= Len(a) THEN a[i] ELSE 0

\* digits with carries still in them -> digits
RECURSIVE LCarry(_, _, _)
LCarry(cols, i, c) ==
    IF i > Len(cols)
    THEN (IF c = 0 THEN <<>> ELSE LFromNat(c))
    ELSE LET s == cols[i] + c
         IN  <<s % LimbBase>> \o LCarry(cols, i + 1, s \div LimbBase)

LMax(x, y) == IF x > y THEN x ELSE y

LAdd(a, b) ==
    With(<<a, b>>, LAMBDA v :
        LTrim(LCarry([i \in 1..LMax(Len(v[1]), Len(v[2])) |->
                        LimbAt(v[1], i) + LimbAt(v[2], i)], 1, 0)))

\* a - b for a >= b (s \div LimbBase is -1 on a borrow)
LSub(a, b) ==
    With(<<a, b>>, LAMBDA v :
        LTrim(LCarry([i \in 1..Len(v[1]) |-> LimbAt(v[1], i) - LimbAt(v[2], i)], 1, 0)))

\* -1, 0, 1 as a < b, a = b, a > b
RECURSIVE LCmpFrom(_, _, _)
LCmpFrom(a, b, i) ==
    IF i = 0 THEN 0
    ELSE IF a[i] # b[i] THEN (IF a[i] > b[i] THEN 1 ELSE -1)
    ELSE LCmpFrom(a, b, i - 1)

LCmp(a, b) ==
    IF Len(a) # Len(b) THEN (IF Len(a) > Len(b) THEN 1 ELSE -1)
    ELSE LCmpFrom(a, b, Len(a))

RECURSIVE LColumn(_, _, _, _)
LColumn(a, b, k, i) ==
    IF i > Len(a) THEN 0
    ELSE a[i] * LimbAt(b, k - i + 1) + LColumn(a, b, k, i + 1)

\* a * b, for a and b of at most 4 digits (a column sum stays below 2^31)
LMul(a, b) ==
    With(<<a, b>>, LAMBDA v :
        IF v[1] = <<>> \/ v[2] = <<>> THEN <<>>
        ELSE LTrim(LCarry([k \in 1..(Len(v[1]) + Len(v[2]) - 1) |->
                             LColumn(v[1], v[2], k, 1)], 1, 0)))

\* a * 2^s
LShl(a, s) ==
    With(<<a, s \div LimbBits, 2 ^ (s % LimbBits)>>, LAMBDA v :
        IF v[1] = <<>> THEN <<>>
        ELSE [i \in 1..v[2] |-> 0]
             \o LTrim(LCarry([i \in 1..Len(v[1]) |-> v[1][i] * v[3]], 1, 0)))

\* floor(a / 2^s)
LShr(a, s) ==
    With(<<a, s \div LimbBits, 2 ^ (s % LimbBits), 2 ^ (LimbBits - (s % LimbBits))>>,
         LAMBDA v :
        IF v[2] >= Len(v[1]) THEN <<>>
        ELSE LTrim([i \in 1..(Len(v[1]) - v[2]) |->
                      (v[1][i + v[2]] \div v[3]) + (LimbAt(v[1], i + v[2] + 1) % v[3]) * v[4]]))

RECURSIVE NatBitLen(_)
NatBitLen(n) == IF n = 0 THEN 0 ELSE 1 + NatBitLen(n \div 2)

LBitLen(a) == IF a = <<>> THEN 0 ELSE (Len(a) - 1) * LimbBits + NatBitLen(a[Len(a)])

\* bit i of a, the least significant being bit 1
LBit(a, i) ==
    (LimbAt(a, ((i - 1) \div LimbBits) + 1) \div (2 ^ ((i - 1) % LimbBits))) % 2

\* a mod 2^k # 0
LLowNonzero(a, k) ==
    \/ \E i \in 1..(k \div LimbBits) : LimbAt(a, i) # 0
    \/ LimbAt(a, (k \div LimbBits) + 1) % (2 ^ (k % LimbBits)) # 0

\* <<quotient, remainder>> of a by the small number d
RECURSIVE LDivLoop(_, _, _, _, _)
LDivLoop(a, d, i, rem, q) ==
    IF i = 0 THEN <<LTrim(q), rem>>
    ELSE LET r == rem * LimbBase + a[i]
         IN  LDivLoop(a, d, i - 1, r % d, <<r \div d>> \o q)

LDivSmall(a, d) == LDivLoop(a, d, Len(a), 0, <<>>)

\* one step of the digit-by-digit square root on <<n, res, bit>>, bit a power of 4
LSqrtStep(st) ==
    With(<<st[1], st[2], st[3], LAdd(st[2], st[3])>>, LAMBDA v :
        IF v[3] = <<>> THEN <<v[1], v[2], v[3]>>
        ELSE IF LCmp(v[1], v[4]) >= 0
        THEN <<LSub(v[1], v[4]), LAdd(LShr(v[2], 1), v[3]), LShr(v[3], 2)>>
        ELSE <<v[1], LShr(v[2], 1), LShr(v[3], 2)>>)

\* k steps (halving k keeps the evaluation shallow)
RECURSIVE LSqrtIter(_, _)
LSqrtIter(st, k) ==
    IF k = 0 THEN st
    ELSE IF k = 1 THEN LSqrtStep(st)
    ELSE With(LSqrtIter(st, k \div 2), LAMBDA mid : LSqrtIter(mid, k - (k \div 2)))

\* <<floor(sqrt(n)), n - floor(sqrt(n))^2>>
LSqrt(n) ==
    IF n = <<>> THEN <<<<>>, <<>>>>
    ELSE With(LSqrtIter(<<n, <<>>, LShl(<<1>>, 2 * ((LBitLen(n) - 1) \div 2))>>,
                        ((LBitLen(n) - 1) \div 2) + 1),
              LAMBDA st : <<st[2], st[1]>>)

FZero == [neg |-> FALSE, man |-> <<>>, exp |-> 0]

\* the double nearest to n * 2^e (+ a positive amount below n's last bit when sticky)
FRoundV(neg, n, e, sticky) ==
    LET L == LBitLen(n) IN
    IF L = 0 THEN FZero
    ELSE IF L <= MantBits
    THEN [neg |-> neg, man |-> LShl(n, MantBits - L), exp |-> e - (MantBits - L)]
    ELSE LET k == L - MantBits
             q == LShr(n, k)
             rest == sticky \/ LLowNonzero(n, k - 1)
             up == LBit(n, k) = 1 /\ (rest \/ LBit(q, 1) = 1)
             q1 == IF up THEN LAdd(q, <<1>>) ELSE q
         IN  IF LBitLen(q1) > MantBits
             THEN [neg |-> neg, man |-> LShr(q1, 1), exp |-> e + k + 1]
             ELSE [neg |-> neg, man |-> q1, exp |-> e + k]

FRound(neg, n, e, sticky) == With(n, LAMBDA v : FRoundV(neg, v, e, sticky))

\* float("k/d") for a decimal literal with value k / d, d a power of ten
FromDecimal(k, d) ==
    With(LDivSmall(LShl(LFromNat(k), 70), d), LAMBDA qr :
        FRound(FALSE, qr[1], -70, qr[2] # 0))

FNeg(x) == IF x.man = <<>> THEN x ELSE [x EXCEPT !.neg = ~x.neg]

FMul(x, y) ==
    FRound(x.neg # y.neg, LMul(x.man, y.man), x.exp + y.exp, FALSE)

FAdd(x, y) ==
    IF x.man = <<>> THEN y
    ELSE IF y.man = <<>> THEN x
    ELSE LET e == IF x.exp < y.exp THEN x.exp ELSE y.exp
         IN  With(<<LShl(x.man, x.exp - e), LShl(y.man, y.exp - e)>>, LAMBDA v :
                 IF x.neg = y.neg THEN FRound(x.neg, LAdd(v[1], v[2]), e, FALSE)
                 ELSE IF LCmp(v[1], v[2]) = 0 THEN FZero
                 ELSE IF LCmp(v[1], v[2]) > 0 THEN FRound(x.neg, LSub(v[1], v[2]), e, FALSE)
                 ELSE FRound(y.neg, LSub(v[2], v[1]), e, FALSE))

FSub(x, y) == FAdd(x, FNeg(y))

\* sqrt of a double >= 0
FSqrt(x) ==
    IF x.man = <<>> THEN FZero
    ELSE LET s == IF (x.exp - 58) % 2 = 0 THEN 58 ELSE 59
         IN  With(LSqrt(LShl(x.man, s)), LAMBDA rq :
                 FRound(FALSE, LAdd(LShl(rq[1], 1), IF rq[2] # <<>> THEN <<1>> ELSE <<>>),
                        ((x.exp - s) \div 2) - 1, FALSE))

\* x > y for doubles x, y >= 0
FGreater(x, y) ==
    IF x.man = <<>> THEN FALSE
    ELSE IF y.man = <<>> THEN TRUE
    ELSE IF x.exp # y.exp THEN x.exp > y.exp
    ELSE LCmp(x.man, y.man) > 0

----------------------------------------------------------------------------
(* check_bond_length_mol *)

None == [none |-> TRUE]

\* a decimal literal with two fractional digits, and the double Python reads it as
Dec(k) == [hundredths |-> k]
float_of(v) == FromDecimal(v.hundredths, 100)

li_len == Dec(280)
mg_len == Dec(280)

\* the dict literal, in source order: <<key[0], key[1], value>>
bond_length_limit_literal ==
    <<<<"H", "H", None>>,
       <<"H", "C", Dec(109)>>,
       <<"H", "O", Dec(96)>>,
       <<"H", "F", None>>,
       <<"H", "P", Dec(144)>>,
       <<"H", "N", Dec(101)>>,
       <<"H", "S", Dec(134)>>,
       <<"H", "Li", li_len>>,
       <<"H", "Mg", mg_len>>,
       <<"C", "C", Dec(154)>>,
       <<"C", "O", Dec(143)>>,
       <<"C", "F", Dec(135)>>,
       <<"C", "P", Dec(184)>>,
       <<"C", "N", Dec(147)>>,
       <<"C", "S", Dec(181)>>,
       <<"C", "Li", li_len>>,
       <<"C", "Mg", mg_len>>,
       <<"O", "O", Dec(148)>>,
       <<"O", "F", Dec(142)>>,
       <<"O", "P", Dec(163)>>,
       <<"O", "N", Dec(144)>>,
       <<"O", "S", Dec(151)>>,
       <<"O", "Li", li_len>>,
       <<"O", "Mg", mg_len>>,
       <<"F", "F", None>>,
       <<"F", "P", Dec(154)>>,
       <<"F", "N", Dec(139)>>,
       <<"F", "S", Dec(158)>>,
       <<"F", "Li", li_len>>,
       <<"F", "Mg", mg_len>>,
       <<"P", "P", Dec(221)>>,
       <<"P", "N", Dec(177)>>,
       <<"P", "S", Dec(210)>>,
       <<"P", "Li", li_len>>,
       <<"P", "Mg", mg_len>>,
       <<"N", "N", Dec(146)>>,
       <<"N", "S", Dec(168)>>,
       <<"N", "Li", li_len>>,
       <<"N", "Mg", mg_len>>,
       <<"S", "S", Dec(204)>>,
       <<"S", "Li", li_len>>,
       <<"S", "Mg", mg_len>>,
       <<"Li", "Li", li_len>>,
       <<"Mg", "Mg", mg_len>>>>

tolerance == FromDecimal(12, 10)

\* `v *= 1.2` unless v is None
scaled(v) == IF v = None THEN None ELSE FMul(float_of(v), tolerance)

\* tuple(sorted(k))
sorted_key(item) == SortedPair(item[1], item[2])

\* tmp, after the loop `tmp[tuple(sorted(k))] = v` over the items of a dict
\* literal: each sorted key maps to the scaled value of the last item that has
\* this key
scaled_table(literal) ==
    [k \in {sorted_key(literal[i]) : i \in 1..Len(literal)} |->
        scaled(literal[
            CHOOSE i \in 1..Len(literal) :
                /\ sorted_key(literal[i]) = k
                /\ \A j \in (i + 1)..Len(literal) : sorted_key(literal[j]) # k][3])]

bond_length_limit == scaled_table(bond_length_limit_literal)

HasKey(table, b) == b \in DOMAIN table

Lookup(table, b) == table[b]

Pt(x, y, z) == <<x, y, z>>

OnAxis(k) == Pt(FromDecimal(k, 1000), FZero, FZero)

Quarter(i, j, k) == Pt(FromDecimal(i * 25, 100), FromDecimal(j * 25, 100), FromDecimal(k * 25, 100))

\* Atom positions.  Each layout gives bond lengths that are the same double on
\* every build: the atoms of "near" and "edge" lie on one axis, and the
\* coordinates of "grid" are multiples of 0.25, so every operation of the norm
\* is exact.
Layouts == {"near", "edge", "grid"}

LayoutNear == <<OnAxis(0), OnAxis(1800), OnAxis(1900), OnAxis(3700), OnAxis(9000)>>

LayoutEdge ==
    <<OnAxis(0), OnAxis(1848), Pt(FMul(FromDecimal(154, 100), FromDecimal(12, 10)), FZero, FZero),
      OnAxis(3156), OnAxis(4464)>>

LayoutGrid ==
    <<Quarter(0, 0, 0), Quarter(3, 4, 0), Quarter(3, 4, 12), Quarter(0, 0, 12), Quarter(0, 4, 12)>>

LayoutPoints(l) ==
    CASE l = "near" -> LayoutNear
      [] l = "edge" -> LayoutEdge
      [] l = "grid" -> LayoutGrid

\* np.linalg.norm(c1 - c2) for coordinate triples: sqrt(dot(x, x))
norm_of(c1, c2) ==
    With(<<FSub(c1[1], c2[1]), FSub(c1[2], c2[2]), FSub(c1[3], c2[3])>>, LAMBDA x :
        FSqrt(FAdd(FAdd(FMul(x[1], x[1]), FMul(x[2], x[2])), FMul(x[3], x[3]))))

\* norm_of on the points of the layouts, computed once
LayoutNorms ==
    [pq \in UNION {{<<LayoutPoints(l)[i], LayoutPoints(l)[j]>> : i, j \in 1..(MaxAtoms + 1)} :
                      l \in Layouts} |-> norm_of(pq[1], pq[2])]

norm(c1, c2) ==
    IF <<c1, c2>> \in DOMAIN LayoutNorms THEN LayoutNorms[<<c1, c2>>] ELSE norm_of(c1, c2)

\* (sorted species pair, length) of every bond
get_bond_lengths(m) ==
    [k \in 1..Len(m.bonds) |->
        <<SortedPair(m.species[m.bonds[k][1]], m.species[m.bonds[k][2]]),
          norm(m.coords[m.bonds[k][1]], m.coords[m.bonds[k][2]])>>]

\* the text "{}  {} ({})".format(b, length, limit) is kept as its three fields:
\* str(b), and the two doubles (repr prints a double as the shortest decimal
\* that reads back as the same double, so the text shows "1.848" exactly when
\* the double is float("1.848"))
bond_length_reason(b, length, limit) == <<"('" \o b[1] \o "', '" \o b[2] \o "')", length, limit>>

\* faulty variant: bond_length_limit.get(b) instead of bond_length_limit[b]
RECURSIVE BondLengthLoop_GetDefault(_, _, _, _, _)
BondLengthLoop_GetDefault(bl, table, k, do_fail, reason) ==
    IF k > Len(bl)
    THEN [raised |-> FALSE, do_fail |-> do_fail, reason |-> reason]
    ELSE LET limit == IF HasKey(table, bl[k][1]) THEN Lookup(table, bl[k][1]) ELSE None
         IN  IF limit # None /\ FGreater(bl[k][2], limit)
             THEN BondLengthLoop_GetDefault(bl, table, k + 1, TRUE,
                      Append(reason, bond_length_reason(bl[k][1], bl[k][2], limit)))
             ELSE BondLengthLoop_GetDefault(bl, table, k + 1, do_fail, reason)

\* the loop over the bonds, from bond k on
RECURSIVE BondLengthLoop(_, _, _, _, _)
BondLengthLoop(bl, table, k, do_fail, reason) ==
    IF k > Len(bl)
    THEN [raised |-> FALSE, do_fail |-> do_fail, reason |-> reason]
    ELSE IF ~HasKey(table, bl[k][1])
    THEN [raised |-> TRUE, do_fail |-> FALSE, reason |-> <<bl[k][1]>>]
    ELSE LET limit == Lookup(table, bl[k][1])
         IN  IF limit # None /\ FGreater(bl[k][2], limit)
             THEN BondLengthLoop(bl, table, k + 1, TRUE,
                                 Append(reason, bond_length_reason(bl[k][1], bl[k][2], limit)))
             ELSE BondLengthLoop(bl, table, k + 1, do_fail, reason)

\* the loop of check_bond_length_mol with `table` as bond_length_limit
bond_length_check(m, table) ==
    With(get_bond_lengths(m), LAMBDA bl : BondLengthLoop(bl, table, 1, FALSE, <<>>))

check_bond_length_mol(m) == bond_length_check(m, bond_length_limit)

----------------------------------------------------------------------------
(* Molecules.  A molecule is [id, species, coords, bonds, rdkit]: rdkit is *)
(* what create_rdkit_mol_from_mol_graph(m.mol_graph, force_sanitize=True)  *)
(* does on it: "ok", or the message of the exception it raises.            *)

Mol(id, species, coords, bonds, rdkit) ==
    [id |-> id, species |-> species, coords |-> coords, bonds |-> bonds, rdkit |-> rdkit]

\* the pairs <<i, j>>, i < j <= n, in lexicographic order
RECURSIVE PairsFrom(_, _, _)
PairsFrom(i, j, n) ==
    IF i >= n THEN <<>>
    ELSE IF j > n THEN PairsFrom(i + 1, i + 2, n)
    ELSE <<<<i, j>>>> \o PairsFrom(i, j + 1, n)

PairSet(n) == {p \in (1..n) \X (1..n) : p[1] < p[2]}

BondSeq(n, S) == SelectSeq(PairsFrom(1, 2, n), LAMBDA p : p \in S)

CoordsOf(l, n) == SubSeq(LayoutPoints(l), 1, n)

\* every molecule of at most MaxAtoms atoms over the species S, in the layouts Ls
GenMols(S, Ls) ==
    UNION {{Mol("m", sp, CoordsOf(l, n), BondSeq(n, bs), "ok") :
               sp \in [1..n -> S], bs \in SUBSET PairSet(n), l \in Ls} : n \in 1..MaxAtoms}

\* one atom bonded to k others
Star(id, centre, k, leaf) ==
    Mol(id, <<centre>> \o [i \in 1..k |-> leaf], [i \in 1..(k + 1) |-> OnAxis(0)],
        [i \in 1..k |-> <<1, i + 1>>], "ok")

StarC6 == Star("star_c6", "C", 5, "C")
LiO4 == Star("li_o4", "Li", 4, "O")

NoRet == [fn |-> "none"]

not_allowed_default == <<<<"Li", "H">>, <<"Li", "Li">>, <<"Mg", "Mg">>, <<"H", "Mg">>>>

\* the objects Python makes for the default arguments allowed_charge and metal
\* of check_connectivity_mol, not_allowed of check_bond_species_mol and
\* not_allowed of check_bond_species; every call without the argument is
\* given the same object
DefaultArgs ==
    [allowed_charge |-> allowed_charge, metal |-> default_metal,
     not_allowed_mol |-> not_allowed_mol_default, not_allowed |-> not_allowed_default]

----------------------------------------------------------------------------
(* SpecConn: check_connectivity_mol on one molecule *)

only_C == [s \in {"C"} |-> <<1, 2, 3, 4>>]
strict_table == [s \in {"C", "Li", "Mg", "Cl"} |-> IF s = "C" THEN <<2>> ELSE <<>>]

AllowedChoices == {allowed_charge, only_C, strict_table}
MetalChoices == {default_metal, "Mg"}

ConnMols == GenMols({"C", "Li", "Mg", "Cl"}, {"near"}) \cup {StarC6, LiO4}

InitConn ==
    /\ mol \in ConnMols
    /\ ret = NoRet
    /\ pc = "idle"
    /\ loaded = <<>> /\ mols = <<>> /\ log = <<>> /\ dumped = <<>>
    /\ defaults = DefaultArgs

CallConnectivityMol ==
    /\ pc = "idle"
    /\ \E allowed \in AllowedChoices, metal \in MetalChoices :
          /\ ret' = [fn |-> "check_connectivity_mol", mol |-> mol, allowed |-> allowed,
                     metal |-> metal, note |-> single_atom_note(mol),
                     res |-> check_connectivity_mol(mol, allowed, metal)]
          /\ pc' = IF ret'.res.raised THEN "raised" ELSE "returned"
    /\ UNCHANGED <<mol, loaded, mols, log, dumped, defaults>>

NextConn == CallConnectivityMol

SpecConn == InitConn /\ [][NextConn]_vars

----------------------------------------------------------------------------
(* SpecBondSpecies: check_bond_species_mol on one molecule *)

ForbiddenPairs == {<<"Li", "H">>, <<"H", "Li">>, <<"Li", "Li">>}

NotAllowedChoices ==
    {<<>>, not_allowed_default, not_allowed_mol_default}
    \cup {<<p>> : p \in ForbiddenPairs}
    \cup {<<p, q>> : p \in ForbiddenPairs, q \in ForbiddenPairs}

BondSpeciesMols == GenMols({"C", "H", "Li", "Mg"}, {"near"})

InitBondSpecies ==
    /\ mol \in BondSpeciesMols
    /\ ret = NoRet
    /\ pc = "idle"
    /\ loaded = <<>> /\ mols = <<>> /\ log = <<>> /\ dumped = <<>>
    /\ defaults = DefaultArgs

CallBondSpeciesMol ==
    /\ pc = "idle"
    /\ \E na \in NotAllowedChoices :
          ret' = [fn |-> "check_bond_species_mol", mol |-> mol, not_allowed |-> na,
                  res |-> check_bond_species_mol(mol, na)]
    /\ pc' = "returned"
    /\ UNCHANGED <<mol, loaded, mols, log, dumped, defaults>>

NextBondSpecies == CallBondSpeciesMol

SpecBondSpecies == InitBondSpecies /\ [][NextBondSpecies]_vars

----------------------------------------------------------------------------
(* SpecBondLength: check_bond_length_mol on one molecule *)

BondLengthMols == GenMols({"C", "H", "Li", "Mg"}, Layouts)

InitBondLength ==
    /\ mol \in BondLengthMols
    /\ ret = NoRet
    /\ pc = "idle"
    /\ loaded = <<>> /\ mols = <<>> /\ log = <<>> /\ dumped = <<>>
    /\ defaults = DefaultArgs

CallBondLengthMol ==
    /\ pc = "idle"
    /\ ret' = [fn |-> "check_bond_length_mol", mol |-> mol, res |-> check_bond_length_mol(mol)]
    /\ pc' = IF ret'.res.raised THEN "raised" ELSE "returned"
    /\ UNCHANGED <<mol, loaded, mols, log, dumped, defaults>>

NextBondLength == CallBondLengthMol

SpecBondLength == InitBondLength /\ [][NextBondLength]_vars

----------------------------------------------------------------------------
(* SpecCanon: the two pair checkers on a molecule, on the same molecule    *)
(* with bonds stored the other way round, and with the forbidden pairs or  *)
(* the keys of the limit table written the other way round                 *)

\* m with the bonds of S stored as (a2, a1)
Swapped(m, S) ==
    [m EXCEPT !.bonds = [k \in 1..Len(m.bonds) |->
                            IF k \in S THEN <<m.bonds[k][2], m.bonds[k][1]>> ELSE m.bonds[k]]]

SwapChoices(m) == {1..Len(m.bonds), {1} \cap (1..Len(m.bonds))}

\* the pairs of rows S written the other way round
Reversed(list, S) ==
    [i \in 1..Len(list) |->
        IF i \in S THEN [list[i] EXCEPT ![1] = list[i][2], ![2] = list[i][1]] ELSE list[i]]

\* the limit table's literal with all keys reversed, or only the key of (H, C)
LiteralWritings == {"all", "H-C"}

Rewritten(w) ==
    IF w = "all" THEN Reversed(bond_length_limit_literal, 1..Len(bond_length_limit_literal))
    ELSE Reversed(bond_length_limit_literal, {2})

RewrittenTables == [w \in LiteralWritings |-> scaled_table(Rewritten(w))]

CanonMols == GenMols({"C", "H", "Li"}, {"grid"})

InitCanon ==
    /\ mol \in CanonMols
    /\ ret = NoRet
    /\ pc = "idle"
    /\ loaded = <<>> /\ mols = <<>> /\ log = <<>> /\ dumped = <<>>
    /\ defaults = DefaultArgs

CanonBondSpecies ==
    /\ pc = "idle"
    /\ \E na \in NotAllowedChoices, S \in SwapChoices(mol) :
          ret' = [fn |-> "check_bond_species_mol", mol |-> mol, swapped |-> Swapped(mol, S),
                  not_allowed |-> na,
                  res |-> check_bond_species_mol(mol, na),
                  res_swapped |-> check_bond_species_mol(Swapped(mol, S), na),
                  res_rewritten |-> check_bond_species_mol(mol, Reversed(na, 1..Len(na)))]
    /\ pc' = "compared"
    /\ UNCHANGED <<mol, loaded, mols, log, dumped, defaults>>

CanonBondLength ==
    /\ pc = "idle"
    /\ \E w \in LiteralWritings, S \in SwapChoices(mol) :
          ret' = [fn |-> "check_bond_length_mol", mol |-> mol, swapped |-> Swapped(mol, S),
                  writing |-> w,
                  res |-> check_bond_length_mol(mol),
                  res_swapped |-> check_bond_length_mol(Swapped(mol, S)),
                  res_rewritten |-> bond_length_check(mol, RewrittenTables[w])]
    /\ pc' = "compared"
    /\ UNCHANGED <<mol, loaded, mols, log, dumped, defaults>>

NextCanon == CanonBondSpecies \/ CanonBondLength

SpecCanon == InitCanon /\ [][NextCanon]_vars

----------------------------------------------------------------------------
(* The batch filter stages.  Each returns [raised, succeeded, failed,      *)
(* reason]: `succeeded` is the returned list, `failed` the list handed to  *)
(* pickle_dump, `reason` the list the report is printed from.  When a      *)
(* checker raises, the stage raises: nothing is dumped or returned, and    *)
(* `reason` holds the key of the KeyError.                                 *)

\* faulty variant: a failing molecule is put in front of the failed list
RECURSIVE StageLoop_Prepend(_, _, _, _, _, _)
StageLoop_Prepend(ms, res, i, succeeded, failed, reason) ==
    IF i > Len(ms)
    THEN [raised |-> FALSE, succeeded |-> succeeded, failed |-> failed, reason |-> reason]
    ELSE IF res[i].raised
    THEN [raised |-> TRUE, succeeded |-> <<>>, failed |-> <<>>, reason |-> res[i].reason]
    ELSE IF res[i].do_fail
    THEN StageLoop_Prepend(ms, res, i + 1, succeeded, <<ms[i]>> \o failed,
                           <<res[i].reason>> \o reason)
    ELSE StageLoop_Prepend(ms, res, i + 1, Append(succeeded, ms[i]), failed, reason)

\* faulty variant: a failing molecule is also kept
RECURSIVE StageLoop_KeepsFailed(_, _, _, _, _, _)
StageLoop_KeepsFailed(ms, res, i, succeeded, failed, reason) ==
    IF i > Len(ms)
    THEN [raised |-> FALSE, succeeded |-> succeeded, failed |-> failed, reason |-> reason]
    ELSE IF res[i].raised
    THEN [raised |-> TRUE, succeeded |-> <<>>, failed |-> <<>>, reason |-> res[i].reason]
    ELSE IF res[i].do_fail
    THEN StageLoop_KeepsFailed(ms, res, i + 1, Append(succeeded, ms[i]),
                               Append(failed, ms[i]), Append(reason, res[i].reason))
    ELSE StageLoop_KeepsFailed(ms, res, i + 1, Append(succeeded, ms[i]), failed, reason)

\* `for m in mols:` from molecule i on, res[i] being what the checker does on ms[i]
RECURSIVE StageLoop(_, _, _, _, _, _)
StageLoop(ms, res, i, succeeded, failed, reason) ==
    IF i > Len(ms)
    THEN [raised |-> FALSE, succeeded |-> succeeded, failed |-> failed, reason |-> reason]
    ELSE IF res[i].raised
    THEN [raised |-> TRUE, succeeded |-> <<>>, failed |-> <<>>, reason |-> res[i].reason]
    ELSE IF res[i].do_fail
    THEN StageLoop(ms, res, i + 1, succeeded, Append(failed, ms[i]),
                   Append(reason, res[i].reason))
    ELSE StageLoop(ms, res, i + 1, Append(succeeded, ms[i]), failed, reason)

check_connectivity(ms, metal) ==
    With([i \in 1..Len(ms) |-> check_connectivity_mol(ms[i], allowed_charge, metal)],
         LAMBDA res : StageLoop(ms, res, 1, <<>>, <<>>, <<>>))

\* faulty variant: the exception is not caught
sanitize_mol_Uncaught(m) == [raised |-> m.rdkit # "ok", do_fail |-> FALSE, reason |-> m.rdkit]

\* the try/except around create_rdkit_mol_from_mol_graph: an exception fails
\* the molecule with str(e) as reason
sanitize_mol(m) == [raised |-> FALSE, do_fail |-> m.rdkit # "ok", reason |-> m.rdkit]

check_rdkit_sanitize(ms) ==
    With([i \in 1..Len(ms) |-> sanitize_mol(ms[i])],
         LAMBDA res : StageLoop(ms, res, 1, <<>>, <<>>, <<>>))

check_bond_species(ms, not_allowed) ==
    With([i \in 1..Len(ms) |-> check_bond_species_mol(ms[i], not_allowed)],
         LAMBDA res : StageLoop(ms, res, 1, <<>>, <<>>, <<>>))

check_bond_length(ms) ==
    With([i \in 1..Len(ms) |-> check_bond_length_mol(ms[i])],
         LAMBDA res : StageLoop(ms, res, 1, <<>>, <<>>, <<>>))

\* faulty variant: the species of the first atom of m that is in `species`
check_one_FirstAtom(m, species) ==
    LET hits == {a \in 1..Len(m.species) : InList(m.species[a], species)}
    IN  IF hits = {}
        THEN [raised |-> FALSE, do_fail |-> FALSE, reason |-> None]
        ELSE [raised |-> FALSE, do_fail |-> TRUE,
              reason |-> m.species[CHOOSE a \in hits : \A b \in hits : a <= b]]

\* the first s of `species` that is in m.species
check_one(m, species) ==
    LET hits == {k \in 1..Len(species) : InList(species[k], m.species)}
    IN  IF hits = {}
        THEN [raised |-> FALSE, do_fail |-> FALSE, reason |-> None]
        ELSE [raised |-> FALSE, do_fail |-> TRUE,
              reason |-> species[CHOOSE k \in hits : \A j \in hits : k <= j]]

remove_mols_containing_species(ms, species) ==
    With([i \in 1..Len(ms) |-> check_one(ms[i], species)],
         LAMBDA res : StageLoop(ms, res, 1, <<>>, <<>>, <<>>))

\* the molecules a run is given
Pair(id, s1, s2, c1, c2, rdkit) == Mol(id, <<s1, s2>>, <<c1, c2>>, <<<<1, 2>>>>, rdkit)

m_ok == Pair("ok", "C", "H", Quarter(0, 0, 0), Quarter(3, 4, 0), "ok")
m_single == Mol("single", <<"Li">>, <<OnAxis(0)>>, <<>>, "ok")
m_valence ==
    Pair("valence", "C", "H", Quarter(0, 0, 0), Quarter(3, 4, 0),
         "Explicit valence for atom # 0 C, 5, is greater than permitted")
m_lili == Pair("lili", "Li", "Li", Quarter(0, 0, 0), Quarter(3, 4, 0), "ok")
m_long == Pair("long", "C", "C", OnAxis(0), OnAxis(1900), "ok")
m_P == Pair("P", "H", "P", Quarter(0, 0, 0), Quarter(3, 4, 0), "ok")
m_limg == Pair("limg", "Li", "Mg", Quarter(0, 0, 0), Quarter(3, 4, 0), "ok")
m_cl == Pair("cl", "C", "Cl", Quarter(0, 0, 0), Quarter(3, 4, 0), "ok")

Catalog == {m_ok, m_single, m_valence, m_lili, m_long, m_P, m_limg, m_cl, StarC6}

\* the lists of at most MaxMols molecules
InputLists == UNION {[1..n -> Catalog] : n \in 0..MaxMols}

----------------------------------------------------------------------------
(* SpecStage: one batch stage on one list *)

InitStage ==
    /\ mols \in InputLists
    /\ mol = m_ok /\ ret = NoRet /\ pc = "idle"
    /\ loaded = <<>> /\ log = <<>> /\ dumped = <<>>
    /\ defaults = DefaultArgs

\* a stage called with `args` has done r: its dump, and its return or raise
StageCalled(fn, args, file, r) ==
    /\ pc = "idle"
    /\ ret' = [fn |-> fn, args |-> args, input |-> mols, res |-> r]
    /\ dumped' = IF r.raised THEN dumped ELSE Append(dumped, [file |-> file, obj |-> r.failed])
    /\ pc' = IF r.raised THEN "raised" ELSE "returned"
    /\ UNCHANGED <<mol, loaded, mols, log, defaults>>

CallCheckConnectivity ==
    \E metal \in MetalChoices :
        \E r \in {check_connectivity(mols, metal)} :
            StageCalled("check_connectivity", <<metal>>, "failed_check_connectivity.pkl", r)

CallCheckRdkitSanitize ==
    \E r \in {check_rdkit_sanitize(mols)} :
        StageCalled("check_rdkit_sanitize", <<>>, "failed_check_rdkit_sanitize.pkl", r)

CallCheckBondSpecies ==
    \E na \in {not_allowed_default, <<<<"H", "C">>>>} :
        \E r \in {check_bond_species(mols, na)} :
            StageCalled("check_bond_species", <<na>>, "failed_check_bond_species.pkl", r)

CallCheckBondLength ==
    \E r \in {check_bond_length(mols)} :
        StageCalled("check_bond_length", <<>>, "failed_check_bond_length.pkl", r)

SpeciesChoices == {<<"P">>, <<"Li", "C">>, <<"H", "C">>, <<>>}

CallRemoveMols ==
    \E species \in SpeciesChoices :
        \E r \in {remove_mols_containing_species(mols, species)} :
            StageCalled("remove_mols_containing_species", <<species>>,
                        "failed_remove_mols_containing_species.pkl", r)

NextStage ==
    \/ CallCheckConnectivity
    \/ CallCheckRdkitSanitize
    \/ CallCheckBondSpecies
    \/ CallCheckBondLength
    \/ CallRemoveMols

SpecStage == InitStage /\ [][NextStage]_vars

----------------------------------------------------------------------------
(* Spec: check_all, one stage per step *)

Init ==
    /\ loaded \in InputLists
    /\ mols = <<>>
    /\ mol = m_ok /\ ret = NoRet /\ pc = "pickle_load"
    /\ log = <<>> /\ dumped = <<>>
    /\ defaults = DefaultArgs

\* mols = pickle_load(filename)
PickleLoad ==
    /\ pc = "pickle_load"
    /\ mols' = loaded
    /\ pc' = "check_connectivity"
    /\ UNCHANGED <<mol, ret, loaded, log, dumped, defaults>>

\* faulty variant: a stage that rejects nothing writes no artifact
StageOfCheckAll_SkipsEmpty(stage, file, next, input, outcome) ==
    /\ pc = stage
    /\ \E r \in {outcome} :
          IF r.raised
          THEN /\ pc' = "raised"
               /\ ret' = [fn |-> stage, error |-> r.reason]
               /\ UNCHANGED <<mols, log, dumped>>
          ELSE /\ pc' = next
               /\ mols' = r.succeeded
               /\ log' = Append(log, [stage |-> stage, input |-> input,
                                      succeeded |-> r.succeeded, failed |-> r.failed,
                                      reason |-> r.reason])
               /\ dumped' = IF r.failed = <<>> THEN dumped
                            ELSE Append(dumped, [file |-> file, obj |-> r.failed])
               /\ UNCHANGED ret
    /\ UNCHANGED <<mol, loaded, defaults>>

\* `mols = <stage>(mols=mols, ...)`, the stage having done r: on a raise
\* check_all ends there, else the stage has dumped its failed list and mols
\* is what it returned
StageOfCheckAll(stage, file, next, input, outcome) ==
    /\ pc = stage
    /\ \E r \in {outcome} :
          IF r.raised
          THEN /\ pc' = "raised"
               /\ ret' = [fn |-> stage, error |-> r.reason]
               /\ UNCHANGED <<mols, log, dumped>>
          ELSE /\ pc' = next
               /\ mols' = r.succeeded
               /\ log' = Append(log, [stage |-> stage, input |-> input,
                                      succeeded |-> r.succeeded, failed |-> r.failed,
                                      reason |-> r.reason])
               /\ dumped' = Append(dumped, [file |-> file, obj |-> r.failed])
               /\ UNCHANGED ret
    /\ UNCHANGED <<mol, loaded, defaults>>

RunCheckConnectivity ==
    StageOfCheckAll("check_connectivity", "failed_connectivity.pkl", "check_rdkit_sanitize",
                    mols, check_connectivity(mols, "Li"))

RunCheckRdkitSanitize ==
    StageOfCheckAll("check_rdkit_sanitize", "failed_rdkit_sanitize.pkl", "check_bond_species",
                    mols, check_rdkit_sanitize(mols))

\* faulty variant: the stage is given the list that was loaded
RunCheckBondSpecies_OnLoaded ==
    StageOfCheckAll("check_bond_species", "failed_bond_species.pkl", "check_bond_length",
                    loaded, check_bond_species(loaded, not_allowed_default))

RunCheckBondSpecies ==
    StageOfCheckAll("check_bond_species", "failed_bond_species.pkl", "check_bond_length",
                    mols, check_bond_species(mols, not_allowed_default))

\* faulty variant: a raise inside the stage is swallowed and the run goes on
RunCheckBondLength_ContinuesOnRaise ==
    /\ pc = "check_bond_length"
    /\ \E r \in {check_bond_length(mols)} :
          /\ pc' = "remove_mols_containing_species"
          /\ mols' = IF r.raised THEN mols ELSE r.succeeded
          /\ log' = IF r.raised THEN log
                     ELSE Append(log, [stage |-> "check_bond_length", input |-> mols,
                                       succeeded |-> r.succeeded, failed |-> r.failed,
                                       reason |-> r.reason])
          /\ dumped' = IF r.raised THEN dumped
                        ELSE Append(dumped, [file |-> "failed_bond length.pkl", obj |-> r.failed])
    /\ UNCHANGED <<mol, ret, loaded, defaults>>

RunCheckBondLength ==
    StageOfCheckAll("check_bond_length", "failed_bond length.pkl",
                    "remove_mols_containing_species", mols, check_bond_length(mols))

RunRemoveMols ==
    StageOfCheckAll("remove_mols_containing_species", "failed_containing_species.pkl",
                    "pickle_dump", mols, remove_mols_containing_species(mols, <<"P">>))

\* faulty variant: the list that was loaded is written as the final dataset
PickleDump_WritesLoaded ==
    /\ pc = "pickle_dump"
    /\ dumped' = Append(dumped, [file |-> "molecules_n200_qc.pkl", obj |-> loaded])
    /\ pc' = "done"
    /\ UNCHANGED <<mol, ret, loaded, mols, log, defaults>>

\* pickle_dump(mols, outname)
PickleDump ==
    /\ pc = "pickle_dump"
    /\ dumped' = Append(dumped, [file |-> "molecules_n200_qc.pkl", obj |-> mols])
    /\ pc' = "done"
    /\ UNCHANGED <<mol, ret, loaded, mols, log, defaults>>

Next ==
    \/ PickleLoad
    \/ RunCheckConnectivity
    \/ RunCheckRdkitSanitize
    \/ RunCheckBondSpecies
    \/ RunCheckBondLength
    \/ RunRemoveMols
    \/ PickleDump

Spec == Init /\ [][Next]_vars

----------------------------------------------------------------------------
(* SpecRerun: check_all, and check_all again on the dataset the first run  *)
(* wrote.  log and dumped go on through the second run: its stages are     *)
(* log[6..10], its artifacts dumped[7..12].                                *)

\* check_all(filename) with the file the first run wrote as outname
Rerun ==
    /\ pc = "done" /\ Len(log) = 5
    /\ loaded' = dumped[6].obj
    /\ pc' = "pickle_load"
    /\ UNCHANGED <<mol, ret, mols, log, dumped, defaults>>

NextRerun == Next \/ Rerun

SpecRerun == Init /\ [][NextRerun]_vars

----------------------------------------------------------------------------
(* SpecFrame: two calls in a row, each of a checker on the same molecule   *)
(* or of a batch stage on the same list, with the default arguments        *)

InitFrame ==
    /\ mol \in Catalog
    /\ mols \in {<<mol>>, <<m_lili, mol>>}
    /\ ret = NoRet /\ pc = "idle"
    /\ loaded = <<>> /\ log = <<>> /\ dumped = <<>>
    /\ defaults = DefaultArgs

\* faulty variant: check_bond_species_mol sorts the pairs of not_allowed in place
FrameChecker_SortsInPlace ==
    /\ pc = "idle" /\ Len(log) < 2
    /\ \E r \in {check_bond_species_mol(mol, defaults.not_allowed_mol)} :
          /\ log' = Append(log, [fn |-> "check_bond_species_mol", res |-> r])
          /\ pc' = "idle"
    /\ defaults' = [defaults EXCEPT !.not_allowed_mol = sorted_not_allowed(@)]
    /\ UNCHANGED <<mol, ret, loaded, mols, dumped>>

\* a single-molecule checker called on mol without optional arguments: it
\* reads mol and its default arguments and returns or raises
FrameChecker ==
    /\ pc = "idle" /\ Len(log) < 2
    /\ \E fn \in {"check_connectivity_mol", "check_bond_species_mol", "check_bond_length_mol"} :
          \E r \in {CASE fn = "check_connectivity_mol" ->
                            check_connectivity_mol(mol, defaults.allowed_charge, defaults.metal)
                       [] fn = "check_bond_species_mol" ->
                            check_bond_species_mol(mol, defaults.not_allowed_mol)
                       [] fn = "check_bond_length_mol" -> check_bond_length_mol(mol)} :
              /\ log' = Append(log, [fn |-> fn, res |-> r])
              /\ pc' = IF r.raised THEN "raised" ELSE "idle"
    /\ UNCHANGED <<mol, ret, loaded, mols, dumped, defaults>>

\* a batch stage called on mols as check_all calls it: it reads the list and
\* its molecules, writes its artifact and returns, or raises
FrameStage ==
    /\ pc = "idle" /\ Len(log) < 2
    /\ \E fn \in {"check_connectivity", "check_rdkit_sanitize", "check_bond_species",
                   "check_bond_length", "remove_mols_containing_species"} :
          \E r \in {CASE fn = "check_connectivity" -> check_connectivity(mols, "Li")
                       [] fn = "check_rdkit_sanitize" -> check_rdkit_sanitize(mols)
                       [] fn = "check_bond_species" ->
                            check_bond_species(mols, defaults.not_allowed)
                       [] fn = "check_bond_length" -> check_bond_length(mols)
                       [] fn = "remove_mols_containing_species" ->
                            remove_mols_containing_species(mols, <<"P">>)} :
              /\ log' = Append(log, [fn |-> fn, res |-> r])
              /\ pc' = IF r.raised THEN "raised" ELSE "idle"
              /\ dumped' = IF r.raised THEN dumped
                            ELSE Append(dumped, [file |-> fn, obj |-> r.failed])
    /\ UNCHANGED <<mol, ret, loaded, mols, defaults>>

NextFrame == FrameChecker \/ FrameStage

SpecFrame == InitFrame /\ [][NextFrame]_vars

----------------------------------------------------------------------------
(* compare_connectivity_across_graph_builder.  The graph builders are not  *)
(* part of this source: a molecule carries, besides the graph it was built *)
(* with (bonds), the graphs that the babel builder, the babel builder with *)
(* the metal edge extender and the critic builder give for it.  The        *)
(* checker argument is a list of function names, never None.               *)

BuilderMol(species, coords, bonds, babel, extender, critic) ==
    [id |-> "m", species |-> species, coords |-> coords, bonds |-> bonds, rdkit |-> "ok",
     babel |-> babel, extender |-> extender, critic |-> critic]

\* m.convert_to_babel_mol_graph(use_metal_edge_extender)
convert_to_babel_mol_graph(m, use_metal_edge_extender) ==
    [m EXCEPT !.bonds = IF use_metal_edge_extender THEN m.extender ELSE m.babel]

\* m.convert_to_critic_mol_graph()
convert_to_critic_mol_graph(m) == [m EXCEPT !.bonds = m.critic]

\* a.mol_graph.isomorphic_to(b.mol_graph): a bijection of the atoms that keeps
\* the species and maps the bonds of a onto the bonds of b
isomorphic_to(a, b) ==
    /\ Len(a.species) = Len(b.species)
    /\ \E p \in [1..Len(a.species) -> 1..Len(a.species)] :
          /\ \A i, j \in 1..Len(a.species) : p[i] = p[j] => i = j
          /\ \A i \in 1..Len(a.species) : b.species[p[i]] = a.species[i]
          /\ {{p[a.bonds[k][1]], p[a.bonds[k][2]]} : k \in 1..Len(a.bonds)}
               = {{b.bonds[k][1], b.bonds[k][2]} : k \in 1..Len(b.bonds)}

\* faulty variant: the four entries are the molecule itself, not copies of it
Variants_NoCopy(m) ==
    With(convert_to_critic_mol_graph(
             convert_to_babel_mol_graph(convert_to_babel_mol_graph(m, FALSE), TRUE)),
         LAMBDA m4 : <<m4, m4, m4, m4>>)

\* [m1, m2, m3, m4]: deep copies of m as loaded and after each conversion
Variants(m) ==
    With(convert_to_babel_mol_graph(m, FALSE), LAMBDA m2 :
    With(convert_to_babel_mol_graph(m2, TRUE), LAMBDA m3 :
         <<m, m2, m3, convert_to_critic_mol_graph(m3)>>))

\* molecules[:1500]
SliceLimit == 1500

\* ck(m) for an element ck of checker.  check_rdkit_sanitize is the batch
\* stage: its `for m in mols` over a single molecule raises TypeError
ApplyChecker(ck, m) ==
    CASE ck = "check_connectivity_mol" ->
            check_connectivity_mol(m, defaults.allowed_charge, defaults.metal)
      [] ck = "check_rdkit_sanitize" ->
            [raised |-> TRUE, do_fail |-> FALSE,
             reason |-> <<"TypeError: 'MoleculeWrapper' object is not iterable">>]
      [] ck = "check_bond_length_mol" -> check_bond_length_mol(m)
      [] ck = "check_bond_species_mol" -> check_bond_species_mol(m, defaults.not_allowed_mol)

\* `for ck in checker` on one entry: [raised, fail_both_check, rsn]
RECURSIVE BatteryLoop(_, _, _, _, _)
BatteryLoop(checker, m3, m4, k, rsn) ==
    IF k > Len(checker)
    THEN [raised |-> FALSE, fail_both_check |-> FALSE, rsn |-> rsn]
    ELSE With(<<ApplyChecker(checker[k], m3), ApplyChecker(checker[k], m4)>>, LAMBDA r :
           IF r[1].raised THEN [raised |-> TRUE, fail_both_check |-> FALSE, rsn |-> r[1].reason]
           ELSE IF r[2].raised
           THEN [raised |-> TRUE, fail_both_check |-> FALSE, rsn |-> r[2].reason]
           ELSE IF r[1].do_fail /\ r[2].do_fail
           THEN [raised |-> FALSE, fail_both_check |-> TRUE, rsn |-> rsn]
           ELSE BatteryLoop(checker, m3, m4, k + 1,
                            Append(rsn, <<r[1].reason, r[2].reason>>)))

\* `for m1, m2, m3, m4 in mols_differ_graph`: [raised, remaining, reason]
RECURSIVE FilterLoop(_, _, _, _, _)
FilterLoop(differ, checker, i, remaining, reason) ==
    IF i > Len(differ)
    THEN [raised |-> FALSE, remaining |-> remaining, reason |-> reason]
    ELSE With(BatteryLoop(checker, differ[i][3], differ[i][4], 1, <<>>), LAMBDA b :
           IF b.raised THEN [raised |-> TRUE, remaining |-> remaining, reason |-> b.rsn]
           ELSE IF b.fail_both_check
           THEN FilterLoop(differ, checker, i + 1, remaining, reason)
           ELSE FilterLoop(differ, checker, i + 1, Append(remaining, differ[i]),
                           Append(reason, b.rsn)))

----------------------------------------------------------------------------
(* SpecCompare: compare_connectivity_across_graph_builder on two           *)
(* three-atom molecules, or on a list that has the same molecule first and *)
(* at position SliceLimit or SliceLimit + 1 and is read with               *)
(* only_different set                                                      *)

\* three atoms at 0, 1.8 and 1.9 on one axis, built without bonds, for which
\* babel gives the bond 1-3 and the other two builders the graphs e and c
CompareMols ==
    {BuilderMol(sp, CoordsOf("near", 3), <<>>, <<<<1, 3>>>>, e, c) :
        sp \in {<<"C", "H", "Li">>, <<"Li", "Li", "H">>, <<"H", "H", "H">>},
        e \in {<<<<1, 2>>>>, <<<<2, 3>>>>, <<<<1, 2>>, <<2, 3>>>>},
        c \in {<<<<1, 2>>>>, <<<<2, 3>>>>, <<<<1, 2>>, <<2, 3>>>>}}

\* the molecules between the first and the last are single atoms that every
\* builder leaves without bonds; checker is the default list or a list of
\* single-molecule checkers
InitCompare ==
    /\ \E a, b \in CompareMols, n \in {2, SliceLimit, SliceLimit + 1} :
          /\ n > 2 => a = b
          /\ loaded = [i \in 1..n |->
                         IF i = 1 THEN a ELSE IF i = n THEN b
                         ELSE BuilderMol(<<"Li">>, <<OnAxis(0)>>, <<>>, <<>>, <<>>, <<>>)]
    /\ \E od \in BOOLEAN,
          ck \in {<<"check_connectivity_mol", "check_rdkit_sanitize", "check_bond_length_mol",
                    "check_bond_species_mol">>,
                  <<"check_connectivity_mol", "check_bond_length_mol",
                    "check_bond_species_mol">>,
                  <<"check_bond_species_mol", "check_bond_length_mol">>} :
          /\ Len(loaded) > 2 => od
          /\ ret = [fn |-> "compare_connectivity_across_graph_builder",
                    only_different |-> od, checker |-> ck]
    /\ mol = m_ok /\ mols = <<>> /\ pc = "compare_select"
    /\ log = <<>> /\ dumped = <<>>
    /\ defaults = DefaultArgs

\* the first loop: mols is mols_differ_graph
CompareSelect ==
    /\ pc = "compare_select"
    /\ mols' = SelectSeq([i \in 1..(IF Len(loaded) < SliceLimit THEN Len(loaded) ELSE SliceLimit)
                             |-> Variants(loaded[i])],
                         LAMBDA v : ~ret.only_different \/ ~isomorphic_to(v[3], v[4]))
    /\ pc' = "compare_filter"
    /\ UNCHANGED <<mol, ret, loaded, log, dumped, defaults>>

\* the second loop, the tex file with the reasons and the four pickle files
CompareFilter ==
    /\ pc = "compare_filter"
    /\ \E r \in {FilterLoop(mols, ret.checker, 1, <<>>, <<>>)} :
          IF r.raised
          THEN /\ pc' = "raised"
               /\ ret' = [fn |-> ret.fn, only_different |-> ret.only_different,
                          checker |-> ret.checker, error |-> r.reason]
               /\ UNCHANGED dumped
          ELSE /\ pc' = "done"
               /\ ret' = [fn |-> ret.fn, only_different |-> ret.only_different,
                          checker |-> ret.checker, remaining |-> r.remaining,
                          reason |-> r.reason]
               /\ dumped' =
                    <<[file |-> "tex_mol_connectivity_comparison.tex", obj |-> r.reason]>>
                    \o [k \in 1..4 |->
                          [file |-> <<"molecules_union_builder.pkl", "molecules_babel_builder.pkl",
                                      "molecules_extender_builder.pkl",
                                      "molecules_critic_builder.pkl">>[k],
                           obj |-> [i \in 1..Len(r.remaining) |-> r.remaining[i][k]]]]
    /\ UNCHANGED <<mol, loaded, mols, log, defaults>>

NextCompare == CompareSelect \/ CompareFilter

SpecCompare == InitCompare /\ [][NextCompare]_vars

----------------------------------------------------------------------------
(* SpecFilters: a batch stage called on its own, or check_all *)

InitFilters == InitStage \/ Init

NextFilters == NextStage \/ Next

SpecFilters == InitFilters /\ [][NextFilters]_vars

----------------------------------------------------------------------------
(* SpecTrain: the epoch loop of main in hgat_electrolyte_bonds.py and what *)
(* follows it.  ret holds args.epochs, the loop variable, the loss and     *)
(* val_acc of the epoch and how the process ended; log is the calls made,  *)
(* in order; dumped the writes of args.output_file.  train, evaluate,      *)
(* ordering_accuracy, the stopper, the scheduler, pickle_dump and          *)
(* load_checkpoints are calls that return: a loss that is NaN or not, a    *)
(* val_acc, a stop flag.  The calls after the loop are logged with the     *)
(* epoch -1.                                                               *)

MaxEpochs == 3

InitTrain ==
    /\ \E n \in 0..MaxEpochs :
          /\ ret = [fn |-> "main", epochs |-> n, epoch |-> 0, loss |-> "none",
                    val_acc |-> "none", status |-> "running"]
          /\ pc = IF n = 0 THEN "after_loop" ELSE "train"
    /\ mol = m_ok /\ loaded = <<>> /\ mols = <<>>
    /\ log = <<>> /\ dumped = <<>>
    /\ defaults = DefaultArgs

\* loss, train_acc = train(...)
Train ==
    /\ pc = "train"
    /\ \E loss \in {"nan", "finite"} :
          /\ ret' = [ret EXCEPT !.loss = loss, !.val_acc = "none"]
          /\ log' = Append(log, [step |-> "train", epoch |-> ret.epoch, arg |-> "", out |-> loss])
    /\ pc' = "isnan"
    /\ UNCHANGED <<mol, loaded, mols, dumped, defaults>>

\* if np.isnan(loss): train once more under detect_anomaly, which raises or
\* returns, and sys.exit(1); an uncaught exception ends the process with
\* status 1 as well
NanCheck ==
    /\ pc = "isnan"
    /\ IF ret.loss = "nan"
       THEN /\ \E raised \in BOOLEAN :
                  log' = log \o <<[step |-> "isnan", epoch |-> ret.epoch, arg |-> "", out |-> "nan"],
                                  [step |-> "train", epoch |-> ret.epoch, arg |-> "detect_anomaly",
                                   out |-> IF raised THEN "raised" ELSE "nan"]>>
            /\ ret' = [ret EXCEPT !.status = "exit 1"]
            /\ pc' = "exited"
       ELSE /\ log' = Append(log, [step |-> "isnan", epoch |-> ret.epoch, arg |-> "",
                                   out |-> "finite"])
            /\ pc' = "evaluate"
            /\ UNCHANGED ret
    /\ UNCHANGED <<mol, loaded, mols, dumped, defaults>>

\* val_acc = evaluate(... val_loader ...); ordering_score = ordering_accuracy(...)
Evaluate ==
    /\ pc = "evaluate"
    /\ \E v \in {"val 1", "val 2"} :
          /\ ret' = [ret EXCEPT !.val_acc = v]
          /\ log' = log \o <<[step |-> "evaluate", epoch |-> ret.epoch, arg |-> "val_loader",
                               out |-> v],
                              [step |-> "ordering_accuracy", epoch |-> ret.epoch,
                               arg |-> "test_loader", out |-> ""]>>
    /\ pc' = "stopper"
    /\ UNCHANGED <<mol, loaded, mols, dumped, defaults>>

\* faulty variant: no break after the stopper has reported stop
StopperStep_NoBreak ==
    /\ pc = "stopper"
    /\ \E stop \in BOOLEAN :
          /\ log' = Append(log, [step |-> "stopper.step", epoch |-> ret.epoch,
                                  arg |-> ret.val_acc, out |-> IF stop THEN "stop" ELSE "go"])
          /\ dumped' = IF stop
                        THEN Append(dumped, [file |-> "args.output_file",
                                             obj |-> "stopper.best_score"])
                        ELSE dumped
          /\ pc' = "scheduler"
    /\ UNCHANGED <<mol, ret, loaded, mols, defaults>>

\* if stopper.step(val_acc, ...): pickle_dump(best_score, output_file); break
StopperStep ==
    /\ pc = "stopper"
    /\ \E stop \in BOOLEAN :
          /\ log' = Append(log, [step |-> "stopper.step", epoch |-> ret.epoch,
                                  arg |-> ret.val_acc, out |-> IF stop THEN "stop" ELSE "go"])
          /\ dumped' = IF stop
                        THEN Append(dumped, [file |-> "args.output_file",
                                             obj |-> "stopper.best_score"])
                        ELSE dumped
          /\ pc' = IF stop THEN "after_loop" ELSE "scheduler"
    /\ UNCHANGED <<mol, ret, loaded, mols, defaults>>

\* scheduler.step(val_acc), the print, and the next epoch of range(args.epochs)
SchedulerStep ==
    /\ pc = "scheduler"
    /\ log' = Append(log, [step |-> "scheduler.step", epoch |-> ret.epoch,
                            arg |-> ret.val_acc, out |-> ""])
    /\ IF ret.epoch + 1 < ret.epochs
       THEN /\ ret' = [ret EXCEPT !.epoch = ret.epoch + 1]
            /\ pc' = "train"
       ELSE /\ pc' = "after_loop"
            /\ UNCHANGED ret
    /\ UNCHANGED <<mol, loaded, mols, dumped, defaults>>

\* after the loop: pickle_dump, load_checkpoints, evaluate and
\* ordering_accuracy on the test set
AfterLoop ==
    /\ pc = "after_loop"
    /\ dumped' = Append(dumped, [file |-> "args.output_file", obj |-> "stopper.best_score"])
    /\ log' = log \o [k \in 1..4 |->
                        [step |-> <<"pickle_dump", "load_checkpoints", "evaluate",
                                    "ordering_accuracy">>[k],
                         epoch |-> -1, arg |-> IF k > 2 THEN "test_loader" ELSE "",
                         out |-> ""]]
    /\ ret' = [ret EXCEPT !.status = "returned"]
    /\ pc' = "finished"
    /\ UNCHANGED <<mol, loaded, mols, defaults>>

NextTrain == Train \/ NanCheck \/ Evaluate \/ StopperStep \/ SchedulerStep \/ AfterLoop

\* one sequential process: a statement that is reached is executed
SpecTrain == InitTrain /\ [][NextTrain]_vars /\ WF_vars(NextTrain)

----------------------------------------------------------------------------
(* What the claims are stated with *)

\* the elements of a finite set of integers, ascending
RECURSIVE Ascending(_)
Ascending(S) ==
    IF S = {} THEN <<>>
    ELSE LET lo == CHOOSE x \in S : \A y \in S : x <= y
         IN  <<lo>> \o Ascending(S \ {lo})

Elements(list) == {list[i] : i \in 1..Len(list)}

Atoms(m) == 1..Len(m.species)

\* how often x is in list
Count(list, x) == Cardinality({i \in 1..Len(list) : list[i] = x})

Distinct(list) == \A i, j \in 1..Len(list) : list[i] = list[j] => i = j

StageOrder ==
    <<"check_connectivity", "check_rdkit_sanitize", "check_bond_species", "check_bond_length",
      "remove_mols_containing_species">>

\* what the checker of stage fn, called with args, reports on molecule m
Verdict(fn, args, m) ==
    CASE fn = "check_connectivity" -> check_connectivity_mol(m, allowed_charge, args[1])
      [] fn = "check_rdkit_sanitize" -> sanitize_mol(m)
      [] fn = "check_bond_species" -> check_bond_species_mol(m, args[1])
      [] fn = "check_bond_length" -> check_bond_length_mol(m)
      [] fn = "remove_mols_containing_species" -> check_one(m, args[1])

\* the arguments check_all gives stage fn
ArgsInCheckAll(fn) ==
    CASE fn = "check_connectivity" -> <<"Li">>
      [] fn = "check_bond_species" -> <<not_allowed_default>>
      [] fn = "remove_mols_containing_species" -> <<<<"P">>>>
      [] OTHER -> <<>>

\* C1: a batch stage that returns has split its input: the returned list is
\* the input molecules its checker does not fail and the reject list those it
\* fails, each in input order; the two lists have no molecule in common and
\* together hold every input molecule as often as the input does.
C1_StagePartition ==
    (pc = "returned" /\ ret.fn \in Elements(StageOrder)) =>
        /\ ret.input = mols
        /\ ret.res.succeeded =
               SelectSeq(ret.input, LAMBDA m : ~Verdict(ret.fn, ret.args, m).do_fail)
        /\ ret.res.failed =
               SelectSeq(ret.input, LAMBDA m : Verdict(ret.fn, ret.args, m).do_fail)
        /\ Elements(ret.res.succeeded) \cap Elements(ret.res.failed) = {}
        /\ \A m \in Catalog :
              Count(ret.input, m) = Count(ret.res.succeeded, m) + Count(ret.res.failed, m)
        /\ dumped = <<[file |-> dumped[1].file, obj |-> ret.res.failed]>>

\* species exclusion with ["Li", "C"] on a list whose first molecule survives
\* and whose two others are rejected
C1_Witness ==
    /\ pc = "returned" /\ ret.fn = "remove_mols_containing_species"
    /\ ret.args = <<<<"Li", "C">>>>
    /\ ret.input = <<m_ok, m_P, m_lili>>
    /\ ret.res.succeeded = <<m_P>>
    /\ ret.res.failed = <<m_ok, m_lili>>

\* C2: when check_all completes on a list of distinct molecules, every input
\* molecule is in exactly one of the final survivor list and the five reject
\* lists, once; these lists hold nothing else; and no stage has a molecule in
\* both its survivors and its rejects.
C2_PipelinePartition ==
    (pc = "done" /\ Distinct(loaded)) =>
        /\ Len(log) = 5
        /\ \A m \in Elements(loaded) :
              Count(mols, m) + Count(log[1].failed, m) + Count(log[2].failed, m)
                  + Count(log[3].failed, m) + Count(log[4].failed, m)
                  + Count(log[5].failed, m) = 1
        /\ Elements(mols) \cup UNION {Elements(log[k].failed) : k \in 1..5} = Elements(loaded)
        /\ \A k \in 1..5 : Elements(log[k].succeeded) \cap Elements(log[k].failed) = {}
        /\ dumped[6].obj = mols

\* a completed run that rejected at three different stages
C2_Witness ==
    /\ pc = "done" /\ loaded = <<m_long, m_ok, m_lili>>
    /\ mols = <<m_ok>>
    /\ log[3].failed = <<m_lili>> /\ log[4].failed = <<m_long>>

\* C3: check_all runs connectivity, sanitization, bond species, bond length,
\* species exclusion in this order; the first is given the loaded list and
\* each later one the list the stage before returned, so a molecule a stage
\* rejected is in no later stage's input; and what a stage does is what it
\* does on that list alone, whatever reasons earlier stages recorded.
C3_StageOrder ==
    /\ Len(log) <= 5
    /\ \A k \in 1..Len(log) :
          /\ log[k].stage = StageOrder[k]
          /\ log[k].input = IF k = 1 THEN loaded ELSE log[k - 1].succeeded
          /\ \A j \in 1..(k - 1) : Elements(log[j].failed) \cap Elements(log[k].input) = {}
          /\ log[k].succeeded =
                 SelectSeq(log[k].input,
                           LAMBDA m : ~Verdict(log[k].stage, ArgsInCheckAll(log[k].stage), m).do_fail)
          /\ log[k].failed =
                 SelectSeq(log[k].input,
                           LAMBDA m : Verdict(log[k].stage, ArgsInCheckAll(log[k].stage), m).do_fail)
    /\ pc \in Elements(StageOrder) =>
          /\ pc = StageOrder[Len(log) + 1]
          /\ mols = IF log = <<>> THEN loaded ELSE log[Len(log)].succeeded
    /\ pc \in {"pickle_dump", "done"} => Len(log) = 5

\* a run that got to the last stage, with a molecule rejected by the first
\* stage and another, rejected by the third, that the second stage let through
C3_Witness ==
    /\ pc = "remove_mols_containing_species"
    /\ loaded = <<StarC6, m_lili, m_P>>
    /\ log[1].failed = <<StarC6>> /\ log[2].input = <<m_lili, m_P>>
    /\ log[3].failed = <<m_lili>> /\ log[4].input = <<m_P>>
    /\ mols = <<m_P>>

\* the bonds of atom a whose other end is not of species `metal`
NonMetalBonds(m, a, metal) ==
    {k \in 1..Len(m.bonds) :
        \/ m.bonds[k][1] = a /\ m.species[m.bonds[k][2]] # metal
        \/ m.bonds[k][2] = a /\ m.species[m.bonds[k][1]] # metal}

NonMetalCount(m, a, metal) == Cardinality(NonMetalBonds(m, a, metal))

\* the atoms with a nonzero count that their species' allowed set lacks
OverBonded(m, allowed, metal) ==
    {a \in Atoms(m) :
        /\ NonMetalCount(m, a, metal) # 0
        /\ m.species[a] \in DOMAIN allowed
        /\ NonMetalCount(m, a, metal) \notin Elements(allowed[m.species[a]])}

IsConnCall == ret.fn = "check_connectivity_mol"

\* C4: for a molecule whose species are all in the allowed-count table,
\* check_connectivity_mol returns fail = (some atom has a nonzero non-metal bond
\* count outside its species' allowed set) and one reason "<species> <count>"
\* per such atom, in atom order; the reasons are empty iff fail is false; with
\* the table {C: [1,2,3,4]} a carbon bonded to 5 carbons fails with "C 5".
C4_ConnectivityResult ==
    (IsConnCall /\ \A a \in Atoms(ret.mol) : ret.mol.species[a] \in DOMAIN ret.allowed) =>
        LET bad == Ascending(OverBonded(ret.mol, ret.allowed, ret.metal)) IN
        /\ ~ret.res.raised
        /\ ret.res.do_fail = (bad # <<>>)
        /\ ret.res.reason =
              [i \in 1..Len(bad) |->
                  ret.mol.species[bad[i]] \o " "
                      \o ToString(NonMetalCount(ret.mol, bad[i], ret.metal))]
        /\ (ret.res.reason = <<>>) = ~ret.res.do_fail
        /\ (ret.mol = StarC6 /\ ret.allowed = only_C) =>
              ret.res.do_fail /\ ret.res.reason = <<"C 5">>

C4_Witness ==
    /\ IsConnCall /\ ret.mol = StarC6 /\ ret.allowed = only_C
    /\ ret.res.do_fail /\ ret.res.reason = <<"C 5">>

\* C5: an atom whose count is zero once the bonds to the metal are removed never
\* produces a failure, whatever the table holds: no reason reports a count of 0,
\* a molecule whose atoms all have a zero count passes without an error, and a
\* single atom without bonds passes with the informational note.
C5_ZeroCountNeverFails ==
    IsConnCall =>
        /\ \A i \in 1..Len(ret.res.reason) :
              \A a \in Atoms(ret.mol) : ret.res.reason[i] # ret.mol.species[a] \o " 0"
        /\ (~ret.res.raised) =>
              Len(ret.res.reason) <=
                  Cardinality({a \in Atoms(ret.mol) : NonMetalCount(ret.mol, a, ret.metal) # 0})
        /\ (\A a \in Atoms(ret.mol) : NonMetalCount(ret.mol, a, ret.metal) = 0) =>
              ~ret.res.raised /\ ~ret.res.do_fail /\ ret.res.reason = <<>>
        /\ (Len(ret.mol.species) = 1 /\ ret.mol.bonds = <<>>) =>
              ret.note /\ ~ret.res.raised /\ ~ret.res.do_fail

\* two lithium atoms bonded only to each other, lithium the metal, under a
\* table that allows lithium no count at all
C5_Witness ==
    /\ IsConnCall /\ ret.allowed = strict_table /\ ret.metal = "Li"
    /\ ret.mol.species = <<"Li", "Li">> /\ ret.mol.bonds = <<<<1, 2>>>>
    /\ ~ret.res.raised /\ ~ret.res.do_fail /\ ret.res.reason = <<>>

\* C6: check_connectivity_mol raises on every molecule with an atom of a
\* species the allowed-count table lacks, whatever that atom's bond count (no
\* bond, or bonds to the metal only, included); it never returns for one.
C6_UndefinedSpeciesRaises ==
    (IsConnCall /\ \E a \in Atoms(ret.mol) : ret.mol.species[a] \notin DOMAIN ret.allowed) =>
        ret.res.raised

----------------------------------------------------------------------------

IsBondSpeciesCall == ret.fn = "check_bond_species_mol"

\* the two species of bond k, as a set
BondPair(m, k) == {m.species[m.bonds[k][1]], m.species[m.bonds[k][2]]}

\* the bonds whose unordered species pair is forbidden
Offending(m, na) ==
    {k \in 1..Len(m.bonds) : \E i \in 1..Len(na) : BondPair(m, k) = {na[i][1], na[i][2]}}

\* the text of a two-element list holding the species of S, lowest first
PairText(S) ==
    LET lo == CHOOSE x \in S : \A y \in S : SpeciesRank(x) <= SpeciesRank(y)
        hi == CHOOSE x \in S : \A y \in S : SpeciesRank(y) <= SpeciesRank(x)
    IN  "['" \o lo \o "', '" \o hi \o "']"

\* C7: check_bond_species_mol fails iff some bond's unordered species pair is
\* forbidden, with one reason (the sorted pair) per offending bond and none
\* otherwise; two bonded lithium atoms fail whenever (Li, Li) is anywhere in
\* the forbidden collection.
C7_BondSpeciesResult ==
    IsBondSpeciesCall =>
        LET bad == Ascending(Offending(ret.mol, ret.not_allowed)) IN
        /\ ~ret.res.raised
        /\ ret.res.do_fail = (bad # <<>>)
        /\ ret.res.reason = [i \in 1..Len(bad) |-> PairText(BondPair(ret.mol, bad[i]))]
        /\ (ret.res.reason = <<>>) = ~ret.res.do_fail
        /\ (/\ ret.mol.species = <<"Li", "Li">> /\ ret.mol.bonds = <<<<1, 2>>>>
            /\ <<"Li", "Li">> \in Elements(ret.not_allowed)) =>
              ret.res.do_fail /\ ret.res.reason = <<"['Li', 'Li']">>

\* (Li, Li) in second place, after a pair written in unsorted order
C7_Witness ==
    /\ IsBondSpeciesCall
    /\ ret.mol.species = <<"Li", "Li">> /\ ret.mol.bonds = <<<<1, 2>>>>
    /\ ret.not_allowed = <<<<"Li", "H">>, <<"Li", "Li">>>>
    /\ ret.res.do_fail /\ ret.res.reason = <<"['Li', 'Li']">>

IsBondLengthCall == ret.fn = "check_bond_length_mol"

Bonds(m) == 1..Len(m.bonds)

\* the Euclidean length of bond k
BondLength(m, k) == norm(m.coords[m.bonds[k][1]], m.coords[m.bonds[k][2]])

BondKey(m, k) == SortedPair(m.species[m.bonds[k][1]], m.species[m.bonds[k][2]])

\* the value the table's literal gives a pair, written in either order
TableValue(b) ==
    bond_length_limit_literal[
        CHOOSE i \in 1..Len(bond_length_limit_literal) :
            /\ {bond_length_limit_literal[i][1], bond_length_limit_literal[i][2]} = {b[1], b[2]}
            /\ \A j \in (i + 1)..Len(bond_length_limit_literal) :
                  {bond_length_limit_literal[j][1], bond_length_limit_literal[j][2]} # {b[1], b[2]}][3]

InTable(b) ==
    \E i \in 1..Len(bond_length_limit_literal) :
        {bond_length_limit_literal[i][1], bond_length_limit_literal[i][2]} = {b[1], b[2]}

\* 1.2 times a table value as the decimal number it is: 1.2 * 1.54 is 1.848
DecimalLimit(v) == FromDecimal(12 * v.hundredths, 1000)

\* the bonds longer than 1.2 times their table value
TooLong(m) ==
    {k \in Bonds(m) :
        /\ TableValue(BondKey(m, k)) # None
        /\ FGreater(BondLength(m, k), DecimalLimit(TableValue(BondKey(m, k))))}

\* C8: for a molecule whose bond pairs are all in the limit table,
\* check_bond_length_mol fails iff some bond with a defined limit is strictly
\* longer than 1.2 times the table value, so a bond exactly at the scaled limit
\* and a bond of a pair without limit pass; with (C, C) = 1.54 the scaled limit
\* is 1.848, a C-C bond of length 1.9 fails with a reason showing 1.9 and
\* 1.848, and one of length 1.8 passes.
C8_BondLengthAsStated ==
    (IsBondLengthCall /\ \A k \in Bonds(ret.mol) : InTable(BondKey(ret.mol, k))) =>
        /\ ~ret.res.raised
        /\ ret.res.do_fail = (TooLong(ret.mol) # {})
        /\ \A k \in Bonds(ret.mol) :
              (BondKey(ret.mol, k) = <<"C", "C">>
               /\ BondLength(ret.mol, k) = FromDecimal(1900, 1000)) =>
                  <<"('C', 'C')", FromDecimal(1900, 1000), FromDecimal(1848, 1000)>>
                      \in Elements(ret.res.reason)

\* a molecule with a bond whose pair the limit table lacks
Untabled(m) == \E k \in Bonds(m) : ~InTable(BondKey(m, k))

FirstUntabled(m) == CHOOSE k \in Bonds(m) : ~InTable(BondKey(m, k)) /\ \A j \in 1..(k - 1) : InTable(BondKey(m, j))

\* C9: check_bond_length_mol raises on a molecule with a bond whose pair the
\* limit table lacks (Li-Mg); when the bond-length stage of check_all is given
\* such a molecule the run ends with that error: the stage returns no
\* survivor list and writes no reject list, no later stage runs and the
\* final list is not written.
C9_MissingPairIsFatal ==
    /\ \A i \in 1..Len(mols) :
          Untabled(mols[i]) =>
              /\ check_bond_length_mol(mols[i]).raised
              /\ check_bond_length_mol(mols[i]).reason =
                     <<BondKey(mols[i], FirstUntabled(mols[i]))>>
    /\ (/\ Len(log) >= 3
        /\ pc # "check_bond_length"
        /\ \E m \in Elements(log[3].succeeded) : Untabled(m)) =>
          /\ pc = "raised"
          /\ ret.fn = "check_bond_length"
          /\ \E m \in Elements(log[3].succeeded) :
                Untabled(m) /\ ret.error = <<BondKey(m, FirstUntabled(m))>>
          /\ Len(log) = 3 /\ Len(dumped) = 3
          /\ mols = log[3].succeeded

\* a run stopped in the bond-length stage by a Li-Mg bond, after the stage
\* had seen a molecule it would have kept
C9_Witness ==
    /\ pc = "raised" /\ ret.fn = "check_bond_length" /\ ret.error = <<<<"Li", "Mg">>>>
    /\ loaded = <<m_ok, m_limg, m_long>>
    /\ mols = <<m_ok, m_limg, m_long>>
    /\ Len(dumped) = 3

\* C10: check_bond_species_mol and check_bond_length_mol give the same fail
\* flag and reasons whichever way round a bond stores its two atoms, and
\* whichever way round a forbidden pair or a key of the limit table is written.
C10_Canonicalization ==
    pc = "compared" =>
        /\ ret.res_swapped = ret.res
        /\ ret.res_rewritten = ret.res
        /\ \A w \in LiteralWritings : RewrittenTables[w] = bond_length_limit

\* a Li-H bond, stored Li first and then H first, against the pair written
\* (Li, H): both fail with ['H', 'Li']
C10_Witness ==
    /\ pc = "compared" /\ ret.fn = "check_bond_species_mol"
    /\ ret.mol.species = <<"Li", "H">> /\ ret.mol.bonds = <<<<1, 2>>>>
    /\ ret.swapped.bonds = <<<<2, 1>>>>
    /\ ret.not_allowed = <<<<"Li", "H">>>>
    /\ ret.res.do_fail /\ ret.res_swapped.reason = <<"['H', 'Li']">>
    /\ ret.res_rewritten.do_fail

\* the molecule has an atom of a species of the list `species`
Contains(m, species) == \E a \in Atoms(m) : InList(m.species[a], species)

\* the first species of the list `species` that the molecule has an atom of
FirstMatch(m, species) ==
    species[CHOOSE k \in 1..Len(species) :
                /\ InList(species[k], m.species)
                /\ \A j \in 1..(k - 1) : ~InList(species[j], m.species)]

\* C11: remove_mols_containing_species rejects exactly the molecules with an
\* atom of an excluded species, and the reason of a reject is the first
\* excluded species, in the order of the exclusion list, that the molecule
\* contains; check_all excludes ["P"], so the list it hands on and writes as
\* the final dataset holds no molecule with phosphorus.
C11_SpeciesExclusion ==
    /\ (pc = "returned" /\ ret.fn = "remove_mols_containing_species") =>
          /\ \A i \in 1..Len(ret.input) :
                (ret.input[i] \in Elements(ret.res.failed)) = Contains(ret.input[i], ret.args[1])
          /\ \A i \in 1..Len(ret.input) :
                (ret.input[i] \in Elements(ret.res.succeeded))
                    = ~Contains(ret.input[i], ret.args[1])
          /\ Len(ret.res.reason) = Len(ret.res.failed)
          /\ \A j \in 1..Len(ret.res.failed) :
                ret.res.reason[j] = FirstMatch(ret.res.failed[j], ret.args[1])
    /\ pc \in {"pickle_dump", "done"} =>
          /\ \A i \in 1..Len(mols) : ~Contains(mols[i], <<"P">>)
          /\ \A m \in Elements(log[5].input) :
                (m \in Elements(log[5].failed)) = Contains(m, <<"P">>)
          /\ \A j \in 1..Len(log[5].reason) : log[5].reason[j] = "P"
    /\ pc = "done" => \A i \in 1..Len(dumped[6].obj) : ~Contains(dumped[6].obj[i], <<"P">>)

\* C-H rejected for "H", the first of the excluded ["H", "C"] although carbon
\* is its first atom
C11_Witness ==
    /\ pc = "returned" /\ ret.fn = "remove_mols_containing_species"
    /\ ret.args = <<<<"H", "C">>>>
    /\ ret.input = <<m_lili, m_ok>>
    /\ ret.res.failed = <<m_ok>> /\ ret.res.reason = <<"H">>

\* list without its i-th element
Without(list, i) == SubSeq(list, 1, i - 1) \o SubSeq(list, i + 1, Len(list))

\* C12: check_rdkit_sanitize never raises on an exception of the toolkit: the
\* molecule it was raised for is rejected with the exception's message as
\* reason, the other molecules are still classified, and they are classified
\* as the stage classifies them on the list without that molecule.
C12_SanitizeCatches ==
    ret.fn = "check_rdkit_sanitize" =>
        /\ pc = "returned" /\ ~ret.res.raised
        /\ ret.res.failed = SelectSeq(ret.input, LAMBDA m : m.rdkit # "ok")
        /\ ret.res.succeeded = SelectSeq(ret.input, LAMBDA m : m.rdkit = "ok")
        /\ ret.res.reason = [j \in 1..Len(ret.res.failed) |-> ret.res.failed[j].rdkit]
        /\ \A i \in 1..Len(ret.input) :
              ret.input[i].rdkit # "ok" =>
                  LET rest == check_rdkit_sanitize(Without(ret.input, i)) IN
                  /\ ~rest.raised
                  /\ rest.succeeded = ret.res.succeeded
                  /\ \A m \in Elements(Without(ret.input, i)) :
                        (m \in Elements(rest.failed)) = (m \in Elements(ret.res.failed))

\* a list whose second molecule makes the toolkit raise, between two it accepts
C12_Witness ==
    /\ pc = "returned" /\ ret.fn = "check_rdkit_sanitize"
    /\ ret.input = <<m_ok, m_valence, m_long>>
    /\ ret.res.succeeded = <<m_ok, m_long>>
    /\ ret.res.failed = <<m_valence>>
    /\ ret.res.reason = <<"Explicit valence for atom # 0 C, 5, is greater than permitted">>

\* C13: the artifact a batch stage writes holds, for every molecule the stage
\* rejected, that molecule together with the reason of its rejection.
C13_ArtifactHoldsReasons ==
    (pc = "returned" /\ ret.fn \in Elements(StageOrder)) =>
        /\ Len(dumped) = 1
        /\ \A j \in 1..Len(ret.res.failed) :
              \E k \in 1..Len(dumped[1].obj) :
                  /\ "reason" \in DOMAIN dumped[1].obj[k]
                  /\ dumped[1].obj[k].reason = ret.res.reason[j]
                  /\ dumped[1].obj[k].id = ret.res.failed[j].id

\* C14: check_all run on the dataset a first run wrote completes, each of its
\* five stages rejects nothing, and its survivors are the first run's
\* survivors in the same order.
C14_Idempotent ==
    /\ Len(log) >= 5 => pc # "raised"
    /\ \A k \in 6..Len(log) :
          /\ log[k].failed = <<>>
          /\ log[k].input = log[5].succeeded
          /\ log[k].succeeded = log[5].succeeded
    /\ Len(dumped) > 6 => loaded = dumped[6].obj /\ loaded = log[5].succeeded
    /\ Len(dumped) = 12 =>
          /\ pc = "done" /\ Len(log) = 10
          /\ mols = log[5].succeeded
          /\ dumped[12].obj = dumped[6].obj

\* a second run completed on the two survivors of a first run that had
\* rejected the molecule between them
C14_Witness ==
    /\ pc = "done" /\ Len(log) = 10 /\ Len(dumped) = 12
    /\ log[1].input = <<m_ok, m_long, m_single>>
    /\ log[4].failed = <<m_long>>
    /\ loaded = <<m_ok, m_single>> /\ mols = <<m_ok, m_single>>

\* C15: no checker and no batch stage changes the molecule or the list it is
\* given, or a table held as a default argument; a step changes nothing but
\* the artifacts, to which a stage adds one; and two calls of the same
\* function on the same molecule or list give the same result.
C15_ReadOnly ==
    /\ [](\A i, j \in 1..Len(log) : log[i].fn = log[j].fn => log[i].res = log[j].res)
    /\ [][/\ mol' = mol /\ mols' = mols /\ loaded' = loaded
          /\ defaults' = defaults
          /\ \/ dumped' = dumped
             \/ /\ Len(dumped') = Len(dumped) + 1
                /\ SubSeq(dumped', 1, Len(dumped)) = dumped]_vars

\* check_bond_species_mol called twice on Li-Li with its default not_allowed,
\* written (Li, H), (Li, Li): the same failure both times, the default as it was
C15_Witness ==
    /\ Len(log) = 2 /\ mol = m_lili
    /\ log[1].fn = "check_bond_species_mol" /\ log[2].fn = "check_bond_species_mol"
    /\ log[1].res.reason = <<"['Li', 'Li']">> /\ log[2].res.reason = <<"['Li', 'Li']">>
    /\ defaults.not_allowed_mol = <<<<"Li", "H">>, <<"Li", "Li">>>>

\* the reject artifacts of check_all, in the order of its stages
RejectFiles ==
    <<"failed_connectivity.pkl", "failed_rdkit_sanitize.pkl", "failed_bond_species.pkl",
      "failed_bond length.pkl", "failed_containing_species.pkl">>

\* the state belongs to a batch stage called on its own
StageAlone == pc \in {"idle", "returned"} \/ (pc = "raised" /\ "res" \in DOMAIN ret)

\* C16: a batch stage that has returned has written exactly one artifact, its
\* list of rejects, empty or not; in check_all the k stages completed so far
\* have written k artifacts, the k-th by stage k holding its rejects, and a
\* completed check_all has written five of them and then, as the sixth and
\* last artifact, the final survivor list.
C16_OneArtifactPerStage ==
    /\ StageAlone =>
          /\ pc = "returned" => dumped = <<[file |-> dumped[1].file, obj |-> ret.res.failed]>>
          /\ pc # "returned" => dumped = <<>>
    /\ ~StageAlone =>
          /\ Len(dumped) = Len(log) + (IF pc = "done" THEN 1 ELSE 0)
          /\ \A i \in 1..Len(log) :
                /\ log[i].stage = StageOrder[i]
                /\ dumped[i] = [file |-> RejectFiles[i], obj |-> log[i].failed]
          /\ pc = "done" =>
                /\ Len(log) = 5
                /\ dumped[6] = [file |-> "molecules_n200_qc.pkl", obj |-> log[5].succeeded]

\* a completed check_all whose first stage rejected nothing and whose third
\* stage rejected a molecule, with survivors
C16_Witness ==
    /\ pc = "done" /\ Len(dumped) = 6
    /\ dumped[1].obj = <<>> /\ dumped[3].obj # <<>> /\ dumped[6].obj # <<>>

\* the quality-controlled dataset is among the artifacts written
QcWritten == \E i \in 1..Len(dumped) : dumped[i].file = "molecules_n200_qc.pkl"

\* C20: when stage k of check_all has raised, the artifacts written are those
\* of stages 1..k-1 and nothing else, and from then on nothing more runs or is
\* written; the quality-controlled dataset is written only after all five
\* stages have completed.
C20_RaiseStopsRun ==
    /\ [](pc = "raised" =>
            \E k \in 1..5 :
                /\ ret.fn = StageOrder[k]
                /\ Len(log) = k - 1 /\ Len(dumped) = k - 1
                /\ \A i \in 1..(k - 1) :
                      log[i].stage = StageOrder[i] /\ dumped[i].file = RejectFiles[i]
                /\ ~QcWritten)
    /\ [](QcWritten =>
            /\ Len(log) = 5
            /\ \A i \in 1..5 : log[i].stage = StageOrder[i])
    /\ [][pc = "raised" => UNCHANGED vars]_vars

\* check_bond_length has raised on a Li-Mg bond after three completed stages
C20_Witness ==
    /\ pc = "raised" /\ ret.fn = "check_bond_length"
    /\ Len(dumped) = 3 /\ ~QcWritten
    /\ \E i \in 1..Len(loaded) : loaded[i] = m_limg

\* molecule m with the graph g
WithGraph(m, g) == [m EXCEPT !.bonds = g]

\* the positions of the input whose molecule is among the first 1500 and has
\* an extender graph that is not isomorphic to its critic graph
Differing ==
    SelectSeq([i \in 1..Len(loaded) |-> i],
              LAMBDA i : /\ i <= 1500
                         /\ ~isomorphic_to(WithGraph(loaded[i], loaded[i].extender),
                                           WithGraph(loaded[i], loaded[i].critic)))

\* C17: once the first loop of the comparator has run with only_different
\* set, the retained entries are, in input order, those of the molecules that
\* are among the first 1500 of the input and whose babel-with-extender graph
\* is not isomorphic to their critic graph; each entry holds the molecule as
\* loaded, with the babel graph, with the babel-with-extender graph and with
\* the critic graph, in this order.
C17_RetainedVariants ==
    (pc \in {"compare_filter", "done", "raised"} /\ ret.only_different) =>
       /\ Len(mols) = Len(Differing)
       /\ \A k \in 1..Len(mols) :
             mols[k] = <<loaded[Differing[k]],
                         WithGraph(loaded[Differing[k]], loaded[Differing[k]].babel),
                         WithGraph(loaded[Differing[k]], loaded[Differing[k]].extender),
                         WithGraph(loaded[Differing[k]], loaded[Differing[k]].critic)>>

\* the same molecule first and at position 1501, its two graphs not
\* isomorphic: only the first is retained, as four different variants
C17_Witness ==
    /\ pc = "compare_filter" /\ ret.only_different
    /\ Len(loaded) = 1501 /\ loaded[1] = loaded[1501]
    /\ Len(mols) = 1 /\ mols[1][1] = loaded[1]
    /\ \A i, j \in 1..4 : i # j => mols[1][i] # mols[1][j]

\* some checker of the battery fails both the extender variant and the critic
\* variant of entry e with the same reasons
FailIdentically(e) ==
    \E k \in 1..Len(ret.checker) :
        /\ ApplyChecker(ret.checker[k], e[3]).do_fail
        /\ ApplyChecker(ret.checker[k], e[4]).do_fail
        /\ ApplyChecker(ret.checker[k], e[3]).reason = ApplyChecker(ret.checker[k], e[4]).reason

\* C18: when the comparator has completed, the kept entries are the retained
\* entries without those whose extender and critic variants fail one checker
\* of the battery with the same reasons, and the i-th reason entry lists, for
\* each checker, the reasons of the two variants of the i-th kept entry.
C18_DroppedIffFailIdentically ==
    pc = "done" =>
       /\ ret.remaining = SelectSeq(mols, LAMBDA e : ~FailIdentically(e))
       /\ Len(ret.reason) = Len(ret.remaining)
       /\ \A i \in 1..Len(ret.remaining) :
             ret.reason[i] = [k \in 1..Len(ret.checker) |->
                                <<ApplyChecker(ret.checker[k], ret.remaining[i][3]).reason,
                                  ApplyChecker(ret.checker[k], ret.remaining[i][4]).reason>>]

\* C19: every checker of the battery the comparator is given, the default
\* battery with check_rdkit_sanitize included, returns a (fail, reasons) pair
\* on the extender variant and on the critic variant of every retained
\* molecule, and the comparator does not end in an exception.
C19_BatteryCompletes ==
    pc \in {"compare_filter", "done", "raised"} =>
       /\ \A i \in 1..Len(mols) : \A k \in 1..Len(ret.checker) :
             /\ ~ApplyChecker(ret.checker[k], mols[i][3]).raised
             /\ ~ApplyChecker(ret.checker[k], mols[i][4]).raised
       /\ pc # "raised"

\* the number of bonds of atom a of m whose other end is an atom of species s
BondsTo(m, a, s) ==
    Cardinality({k \in 1..Len(m.bonds) :
                    \/ m.bonds[k][1] = a /\ m.species[m.bonds[k][2]] = s
                    \/ m.bonds[k][2] = a /\ m.species[m.bonds[k][1]] = s})

\* the number of bonds of atom a of m
Degree(m, a) ==
    Cardinality({k \in 1..Len(m.bonds) : m.bonds[k][1] = a \/ m.bonds[k][2] = a})

\* the count of atom a: all its bonds but those to atoms of the designated metal
CountedBonds(m, a, metal) == Degree(m, a) - BondsTo(m, a, metal)

\* C21: check_connectivity_mol takes from an atom's count only its bonds to
\* atoms of the one designated metal: an atom of the metal itself is checked
\* with its bonds to other species against the metal's allowed set, and a bond
\* to another metal is counted like any bond.  With the defaults a lithium
\* bonded to four oxygens fails with the one reason "Li 4", no oxygen being
\* reported; and under a table that allows carbon two bonds only, a carbon
\* bonded to one Mg is reported with the count 1 when Li is the metal.
C21_OnlyDesignatedMetalRemoved ==
    (IsConnCall /\ ~ret.res.raised) =>
        /\ \A a \in Atoms(ret.mol) :
              (/\ ret.mol.species[a] \in DOMAIN ret.allowed
               /\ CountedBonds(ret.mol, a, ret.metal) # 0
               /\ CountedBonds(ret.mol, a, ret.metal)
                     \notin Elements(ret.allowed[ret.mol.species[a]])) =>
                 /\ ret.res.do_fail
                 /\ \E i \in 1..Len(ret.res.reason) :
                       ret.res.reason[i] =
                          ret.mol.species[a] \o " "
                              \o ToString(CountedBonds(ret.mol, a, ret.metal))
        /\ \A i \in 1..Len(ret.res.reason) :
              \E a \in Atoms(ret.mol) :
                 /\ CountedBonds(ret.mol, a, ret.metal) # 0
                 /\ ret.res.reason[i] =
                       ret.mol.species[a] \o " "
                           \o ToString(CountedBonds(ret.mol, a, ret.metal))
        /\ (ret.mol = LiO4 /\ ret.allowed = allowed_charge /\ ret.metal = "Li") =>
              /\ \A a \in 2..5 : CountedBonds(LiO4, a, "Li") = 0
              /\ ret.res.do_fail /\ ret.res.reason = <<"Li 4">>
        /\ (/\ ret.mol.species = <<"C", "Mg">> /\ ret.mol.bonds = <<<<1, 2>>>>
            /\ ret.allowed = strict_table) =>
              ret.res.reason = IF ret.metal = "Li" THEN <<"C 1", "Mg 1">> ELSE <<"Mg 1">>

\* the lithium bonded to four oxygens, checked with the defaults
C21_Witness ==
    /\ IsConnCall /\ ret.mol = LiO4 /\ ret.allowed = allowed_charge /\ ret.metal = "Li"
    /\ ret.res.do_fail /\ ret.res.reason = <<"Li 4">>

\* the steps of an epoch, in the order the claim gives
EpochOrder ==
    <<"train", "isnan", "evaluate", "ordering_accuracy", "stopper.step", "scheduler.step">>

\* the names of the calls logged for epoch e, in the order they were made
StepsOf(e) ==
    [i \in 1..Len(SelectSeq(log, LAMBDA x : x.epoch = e)) |->
        SelectSeq(log, LAMBDA x : x.epoch = e)[i].step]

IsPrefix(s, t) == Len(s) <= Len(t) /\ s = SubSeq(t, 1, Len(s))

\* the loss of epoch e was NaN
NanIn(e) == \E i \in 1..Len(log) : log[i].epoch = e /\ log[i].step = "train" /\ log[i].out = "nan"

\* C22: the steps of every epoch are made in the order train, NaN check,
\* validation evaluation, ordering accuracy, early-stopping step, scheduler
\* step, an epoch beginning only after the one before it has made all six.
\* After a NaN loss nothing but the NaN check and the second train under
\* anomaly detection is run: the process ends with status 1, without a
\* stopper step or scheduler step for that epoch and with nothing written to
\* the output file.  After a stopper step that reports stop no step of the
\* loop is made any more.  A run that has returned has, as its last four
\* calls, written the best score to the output file, loaded the checkpoints,
\* evaluated the test set and computed its ordering accuracy; and every run
\* ends, with status 1 after a NaN loss and by returning otherwise.
C22_TrainingLoopOrder ==
    /\ [](ret.fn = "main" =>
            /\ \A e \in 0..ret.epochs :
                  /\ IsPrefix(StepsOf(e), EpochOrder) \/ StepsOf(e) = <<"train", "isnan", "train">>
                  /\ (e > 0 /\ StepsOf(e) # <<>>) => StepsOf(e - 1) = EpochOrder
                  /\ NanIn(e) =>
                        /\ StepsOf(e) \in {<<"train">>, <<"train", "isnan", "train">>}
                        /\ pc \in {"isnan", "exited"}
                        /\ dumped = <<>>
                        /\ StepsOf(-1) = <<>>
            /\ \A i, j \in 1..Len(log) :
                  i < j =>
                     /\ log[i].epoch = -1 => log[j].epoch = -1
                     /\ log[j].epoch # -1 => log[i].epoch <= log[j].epoch
                     /\ (log[i].step = "stopper.step" /\ log[i].out = "stop") =>
                           log[j].epoch = -1
            /\ pc = "exited" => ret.status = "exit 1" /\ NanIn(ret.epoch)
            /\ pc = "finished" =>
                  /\ ret.status = "returned"
                  /\ StepsOf(-1) =
                        <<"pickle_dump", "load_checkpoints", "evaluate", "ordering_accuracy">>
                  /\ dumped # <<>>
                  /\ dumped[Len(dumped)] =
                        [file |-> "args.output_file", obj |-> "stopper.best_score"]
                  /\ \A e \in 0..ret.epochs : ~NanIn(e))
    /\ <>(pc \in {"exited", "finished"})

\* a run that made a whole first epoch, was stopped by the stopper in the
\* second and has returned
C22_Witness ==
    /\ pc = "finished" /\ ret.fn = "main"
    /\ StepsOf(0) = EpochOrder
    /\ StepsOf(1) = SubSeq(EpochOrder, 1, 5)
    /\ Len(dumped) = 2

============================================================================
